---- MODULE Spec2Model ----
(***************************************************************************)
(* Model of the price tracker: the price fetcher and the weekly store of   *)
(* src/lib/api.ts (fetchPricesFromAPI, loadWeeklyPrices, saveWeeklyPrices, *)
(* startPriceUpdates) and the dashboard component that reads them.         *)
(*                                                                         *)
(* Units.  An instant is a whole number of hours since 1970-01-01T00:00Z.  *)
(* An ISO-8601 timestamp string is the pair <<UTC date, UTC hour>>, the    *)
(* date counted in days since 1970-01-01.  An upstream price is a whole    *)
(* number of thousandths; a stored price is a whole number of hundredths.  *)
(***************************************************************************)
EXTENDS Integers, Sequences, FiniteSets, TLC

VARIABLES
    now,        \* the wall clock read by new Date()
    dirExists,  \* public/weekly_data exists
    files,      \* weekly file name -> persisted bucket, for the files that exist
    cyc,        \* fetch-and-save cycles of startPriceUpdates: 0 initial, 1.. ticks
    ticks,      \* timer callbacks started so far
    timer,      \* the setInterval timer of startPriceUpdates is installed
    thrown,     \* startPriceUpdates rejected (its catch rethrew)
    fx,         \* one call of fetchPricesFromAPI: its response and what it returned
    ui,         \* the React state of HomePage
    dload,      \* the fetchData call of HomePage's effect
    dcyc,       \* where each callback of HomePage's updateInterval stands
    dticks,     \* updateInterval callbacks started so far
    interval,   \* updateInterval is installed and not cleared
    call        \* one call of a helper function: its arguments and its result

storeVars == <<dirExists, files, cyc, ticks, timer, thrown>>
dashVars == <<ui, dload, dcyc, dticks, interval>>
vars == <<now, storeVars, fx, dashVars, call>>

-----------------------------------------------------------------------------
(* Bounds of the model *)

MaxTicks == 2
MaxAdvance == 2

(* Calendar constants of the Date object *)
HoursPerDay == 24
DaysPerWeek == 7
EpochWeekday == 4

Items == {"cocain", "sword"}
RawPrices == {0, 5000, 10123, 10125, 10128}
\* What the request can end in: 0 stands for a rejected request (no response).
Statuses == {0, 200, 500}

-----------------------------------------------------------------------------
(* Date *)

toISOString(t) == <<t \div HoursPerDay, t % HoursPerDay>>

DateParse(iso) == iso[1] * HoursPerDay + iso[2]

getDay(t) == ((t \div HoursPerDay) + EpochWeekday) % DaysPerWeek

\* The clock starts on the last Saturday of a week, at 22:00 UTC.
FirstNow == (DaysPerWeek - EpochWeekday) * HoursPerDay - 2

\* The server's offset between local time and UTC, in hours.
ServerZone == 0

getWeeklyFileName(t, tz) ==
    LET startOfWeek == t - getDay(t + tz) * HoursPerDay
        endOfWeek   == startOfWeek + 6 * HoursPerDay
    IN  <<toISOString(startOfWeek)[1], toISOString(endOfWeek)[1]>>

-----------------------------------------------------------------------------
(* Price fetcher *)

roundToTwoFloor(num) == num \div 10

\* Math.round(num * 100) / 100, from thousandths to hundredths.
roundToTwo(num) == (num + 5) \div 10

ResponseOkIgnored(status) == TRUE

ResponseOk(status) == status >= 200 /\ status <= 299

\* The RawData built from a parsed response body at instant t.
BuildRawData(data, t) ==
    [item \in DOMAIN data |->
        << [timestamp |-> toISOString(t), price |-> roundToTwo(data[item])] >>]

Bodies == UNION {[S -> RawPrices] : S \in SUBSET Items}

\* The response bodies the refresh cycles draw from.
CycleBodies == {b \in Bodies : (\A i \in DOMAIN b : b[i] = 10123) /\ DOMAIN b # {"sword"}}

-----------------------------------------------------------------------------
(* Weekly store *)

EmptyItems == [item \in {} |-> <<>>]

RECURSIVE InsertBeforeTies(_, _)
InsertBeforeTies(sorted, r) ==
    IF sorted = <<>> THEN <<r>>
    ELSE IF DateParse(sorted[Len(sorted)].timestamp) - DateParse(r.timestamp) < 0
         THEN Append(sorted, r)
         ELSE Append(InsertBeforeTies(SubSeq(sorted, 1, Len(sorted) - 1), r),
                     sorted[Len(sorted)])

RECURSIVE InsertByTime(_, _)
InsertByTime(sorted, r) ==
    IF sorted = <<>> THEN <<r>>
    ELSE IF DateParse(sorted[Len(sorted)].timestamp) - DateParse(r.timestamp) <= 0
         THEN Append(sorted, r)
         ELSE Append(InsertByTime(SubSeq(sorted, 1, Len(sorted) - 1), r),
                     sorted[Len(sorted)])

sortUnsorted(s) == s

\* Array.prototype.sort with the comparator of saveWeeklyPrices (stable).
RECURSIVE sort(_)
sort(s) ==
    IF s = <<>> THEN <<>>
    ELSE InsertByTime(sort(SubSeq(s, 1, Len(s) - 1)), s[Len(s)])

RECURSIVE Dedup(_)
Dedup(s) ==
    IF s = <<>> THEN <<>>
    ELSE LET front == Dedup(SubSeq(s, 1, Len(s) - 1))
         IN  IF \E i \in 1..Len(front) : front[i] = s[Len(s)]
             THEN front ELSE Append(front, s[Len(s)])

ItemOf(items, item) == IF item \in DOMAIN items THEN items[item] ELSE <<>>

AppendNewDeduplicated(old, newPrices) == Dedup(old \o newPrices)

AppendNew(old, newPrices) == old \o newPrices

\* combinedData of saveWeeklyPrices.
Combine(existing, newData) ==
    [item \in DOMAIN existing \cup DOMAIN newData |->
        IF item \in DOMAIN newData
        THEN sort(AppendNew(ItemOf(existing, item), newData[item]))
        ELSE existing[item]]

FileExists(k) == k \in DOMAIN files

PutFile(k, bucket) == [x \in DOMAIN files \cup {k} |-> IF x = k THEN bucket ELSE files[x]]

-----------------------------------------------------------------------------
(* startPriceUpdates *)

FxIdle == [pc |-> "idle", data |-> EmptyItems, at |-> 0, out |-> EmptyItems]

\* No helper function is being called.
NoCall == [pc |-> "idle"]

NoDay == -1

UiInitial ==
    [rawData |-> <<>>, loading |-> TRUE, error |-> "null", currentPrices |-> EmptyItems,
     selectedDay |-> NoDay, startDate |-> NoDay, endDate |-> NoDay,
     dateRange |-> "single"]

\* The dashboard is not mounted.
DashIdle ==
    /\ ui = UiInitial
    /\ dload = [pc |-> "idle", key |-> <<0, 0>>]
    /\ dcyc = [c \in 1..MaxTicks |-> "idle"]
    /\ dticks = 0
    /\ interval = FALSE

Cycles == 0..MaxTicks

IdleCycle ==
    [pc |-> "idle", status |-> -1, fetched |-> FALSE, newData |-> EmptyItems,
     saveCalled |-> FALSE, key |-> <<0, 0>>, loaded |-> FALSE,
     existing |-> EmptyItems, combined |-> EmptyItems, writes |-> 0]

InFlight(c) == cyc[c].pc \in {"fetching", "parsing", "mkdir", "reading", "writing"}

Failed(rec) == rec.pc \in {"fetchError", "loadError", "writeError"}

\* A catch that logs the error of every cycle and rethrows none.
PropagateLogged(c) == thrown' = thrown

\* The caller's catch: the timer callback logs the error, startPriceUpdates rethrows it.
Propagate(c) == thrown' = (thrown \/ (c = 0 /\ Failed(cyc'[c])))

InitStore ==
    /\ now = FirstNow
    /\ dirExists \in BOOLEAN
    /\ files = [k \in {} |-> EmptyItems]
    /\ cyc = [c \in Cycles |-> IF c = 0 THEN [IdleCycle EXCEPT !.pc = "fetching"]
                                        ELSE IdleCycle]
    /\ ticks = 0
    /\ timer = FALSE
    /\ thrown = FALSE
    /\ fx = FxIdle
    /\ call = NoCall
    /\ DashIdle

Advance ==
    /\ now < FirstNow + MaxAdvance
    /\ now' = now + 1
    /\ UNCHANGED <<dirExists, files, cyc, ticks, timer, thrown>>
    /\ UNCHANGED <<fx, dashVars, call>>

TickGuardExclusive == timer /\ ticks < MaxTicks /\ \A c \in Cycles : ~InFlight(c)

\* setInterval fires whatever the earlier callbacks are doing.
TickGuard == timer /\ ticks < MaxTicks

\* The setInterval callback starts: fetchPricesFromAPI issues its request.
Tick ==
    /\ TickGuard
    /\ ticks' = ticks + 1
    /\ cyc' = [cyc EXCEPT ![ticks + 1].pc = "fetching"]
    /\ UNCHANGED <<now, dirExists, files, timer, thrown, call>>
    /\ UNCHANGED <<fx, dashVars>>

\* The request ends: it rejects, or its response fails or passes the response.ok test.
FetchDone(c, status) ==
    /\ cyc[c].pc = "fetching"
    /\ cyc' = [cyc EXCEPT ![c].status = status,
                          ![c].pc = IF status # 0 /\ ResponseOk(status)
                                    THEN "parsing" ELSE "fetchError"]
    /\ Propagate(c)
    /\ UNCHANGED <<now, dirExists, files, ticks, timer, call>>
    /\ UNCHANGED <<fx, dashVars>>

\* response.json() rejects, or the body has no result.data.
JsonFail(c) ==
    /\ cyc[c].pc = "parsing"
    /\ cyc' = [cyc EXCEPT ![c].pc = "fetchError"]
    /\ Propagate(c)
    /\ UNCHANGED <<now, dirExists, files, ticks, timer, call>>
    /\ UNCHANGED <<fx, dashVars>>

\* existingData is in hand: merge, then issue the write.
Merged(rec, existing) ==
    [rec EXCEPT !.pc = "writing", !.loaded = TRUE, !.existing = existing,
                !.combined = Combine(existing, rec.newData), !.writes = rec.writes + 1]

OnMissingFileThrow(rec) == [rec EXCEPT !.pc = "loadError"]

\* loadWeeklyPrices finds no file: it returns { items: {} }.
OnMissingFile(rec) == Merged(rec, EmptyItems)

\* loadWeeklyPrices once the directory is there.
LoadFile(rec) ==
    IF ~FileExists(rec.key) THEN OnMissingFile(rec) ELSE [rec EXCEPT !.pc = "reading"]

\* The body parses: fetchPricesFromAPI returns and saveWeeklyPrices starts.
JsonOk(c, data) ==
    /\ cyc[c].pc = "parsing"
    /\ LET rec == [cyc[c] EXCEPT !.fetched = TRUE, !.newData = BuildRawData(data, now),
                                 !.saveCalled = TRUE,
                                 !.key = getWeeklyFileName(now, ServerZone)]
       IN  cyc' = [cyc EXCEPT ![c] = IF dirExists THEN LoadFile(rec)
                                     ELSE [rec EXCEPT !.pc = "mkdir"]]
    /\ Propagate(c)
    /\ UNCHANGED <<now, dirExists, files, ticks, timer, call>>
    /\ UNCHANGED <<fx, dashVars>>

MkdirOk(c) ==
    /\ cyc[c].pc = "mkdir"
    /\ dirExists' = TRUE
    /\ cyc' = [cyc EXCEPT ![c] = LoadFile(cyc[c])]
    /\ Propagate(c)
    /\ UNCHANGED <<now, files, ticks, timer, call>>
    /\ UNCHANGED <<fx, dashVars>>

MkdirFail(c) ==
    /\ cyc[c].pc = "mkdir"
    /\ cyc' = [cyc EXCEPT ![c].pc = "loadError"]
    /\ Propagate(c)
    /\ UNCHANGED <<now, dirExists, files, ticks, timer, call>>
    /\ UNCHANGED <<fx, dashVars>>

ReadOk(c) ==
    /\ cyc[c].pc = "reading"
    /\ cyc' = [cyc EXCEPT ![c] = Merged(cyc[c], files[cyc[c].key])]
    /\ UNCHANGED <<now, dirExists, files, ticks, timer, thrown, call>>
    /\ UNCHANGED <<fx, dashVars>>

\* A load that takes an unreadable file for an empty bucket.
OnReadErrorStartAfresh(rec) == Merged(rec, EmptyItems)

\* The catch of loadWeeklyPrices, then that of saveWeeklyPrices: log and rethrow.
OnReadError(rec) == [rec EXCEPT !.pc = "loadError"]

\* readFile rejects or JSON.parse throws.
ReadFail(c) ==
    /\ cyc[c].pc = "reading"
    /\ cyc' = [cyc EXCEPT ![c] = OnReadError(cyc[c])]
    /\ Propagate(c)
    /\ UNCHANGED <<now, dirExists, files, ticks, timer, call>>
    /\ UNCHANGED <<fx, dashVars>>

WrittenContentReread(c) == Combine(ItemOf(files, cyc[c].key), cyc[c].newData)

\* The content handed to fs.promises.writeFile.
WrittenContent(c) == cyc[c].combined

\* writeFile resolves; after the initial save startPriceUpdates installs the timer.
WriteOk(c) ==
    /\ cyc[c].pc = "writing"
    /\ files' = PutFile(cyc[c].key, WrittenContent(c))
    /\ cyc' = [cyc EXCEPT ![c].pc = "done"]
    /\ timer' = (timer \/ c = 0)
    /\ UNCHANGED <<now, dirExists, ticks, thrown, call>>
    /\ UNCHANGED <<fx, dashVars>>

OnWriteErrorRetry(rec) == [rec EXCEPT !.writes = rec.writes + 1]

\* The catch of saveWeeklyPrices: log and rethrow.
OnWriteError(rec) == [rec EXCEPT !.pc = "writeError"]

WriteFail(c) ==
    /\ cyc[c].pc = "writing"
    /\ cyc' = [cyc EXCEPT ![c] = OnWriteError(cyc[c])]
    /\ Propagate(c)
    /\ UNCHANGED <<now, dirExists, files, ticks, timer, call>>
    /\ UNCHANGED <<fx, dashVars>>

NextStore ==
    \/ Advance
    \/ Tick
    \/ \E c \in Cycles, status \in Statuses : FetchDone(c, status)
    \/ \E c \in Cycles : JsonFail(c)
    \/ \E c \in Cycles, data \in CycleBodies : JsonOk(c, data)
    \/ \E c \in Cycles : MkdirOk(c)
    \/ \E c \in Cycles : MkdirFail(c)
    \/ \E c \in Cycles : ReadOk(c)
    \/ \E c \in Cycles : ReadFail(c)
    \/ \E c \in Cycles : WriteOk(c)
    \/ \E c \in Cycles : WriteFail(c)

SpecStore == InitStore /\ [][NextStore]_vars

-----------------------------------------------------------------------------
(* fetchPricesFromAPI on its own: every response body at every instant *)

InitFetch ==
    /\ now \in FirstNow..(FirstNow + MaxAdvance)
    /\ dirExists = TRUE
    /\ files = [k \in {} |-> EmptyItems]
    /\ cyc = [c \in Cycles |-> IdleCycle]
    /\ ticks = 0
    /\ timer = FALSE
    /\ thrown = FALSE
    /\ \E data \in Bodies : fx = [FxIdle EXCEPT !.pc = "parsing", !.data = data]
    /\ call = NoCall
    /\ DashIdle

\* The body parses and fetchPricesFromAPI returns its RawData.
ReturnRawData ==
    /\ fx.pc = "parsing"
    /\ fx' = [fx EXCEPT !.pc = "returned", !.at = now, !.out = BuildRawData(fx.data, now)]
    /\ UNCHANGED <<now, storeVars, dashVars, call>>

NextFetch == ReturnRawData

SpecFetch == InitFetch /\ [][NextFetch]_vars

-----------------------------------------------------------------------------
(* getWeeklyFileName, on a server in any time zone *)

\* Offsets between local time and UTC, in hours: UTC-12 .. UTC+14.
ZoneOffsets == (0 - HoursPerDay \div 2) .. (HoursPerDay \div 2 + 2)

\* Instants of nine consecutive days: every weekday at every hour.
WeekInstants == (FirstNow - 2 * HoursPerDay) .. (FirstNow + DaysPerWeek * HoursPerDay)

\* Everything but the clock and the call is idle.
OnlyCall ==
    /\ dirExists = TRUE
    /\ files = [k \in {} |-> EmptyItems]
    /\ cyc = [c \in Cycles |-> IdleCycle]
    /\ ticks = 0
    /\ timer = FALSE
    /\ thrown = FALSE
    /\ fx = FxIdle
    /\ DashIdle

InitWeek ==
    /\ now \in WeekInstants
    /\ \E tz \in ZoneOffsets : call = [pc |-> "called", tz |-> tz]
    /\ OnlyCall

ReturnFileName ==
    /\ call.pc = "called"
    /\ call' = [pc |-> "returned", tz |-> call.tz, at |-> now,
                out |-> getWeeklyFileName(now, call.tz)]
    /\ UNCHANGED <<now, storeVars, fx, dashVars>>

NextWeek == ReturnFileName

SpecWeek == InitWeek /\ [][NextWeek]_vars

-----------------------------------------------------------------------------
(* saveWeeklyPrices, called twice on one bucket in either order *)

MaxSeries == 2
MaxExisting == 1

MergeRecords ==
    {[timestamp |-> toISOString(t), price |-> p] :
        t \in {FirstNow, FirstNow + 1}, p \in {1012, 1013}}

SeriesUpTo(n) == UNION {[1..k -> MergeRecords] : k \in 0..n}

\* A bucket holding one item.
BucketOf(series) == [item \in {"cocain"} |-> series]

\* The buckets a weekly file can hold: none, or sequences left by an earlier sort.
ExistingBuckets ==
    {EmptyItems} \cup {BucketOf(s) : s \in {x \in SeriesUpTo(MaxExisting) : sort(x) = x}}

InitMerge ==
    /\ now = FirstNow
    /\ \E existing \in ExistingBuckets, A, B \in SeriesUpTo(MaxSeries) :
          call = [pc |-> "called", existing |-> existing, A |-> A, B |-> B]
    /\ OnlyCall

\* Both orders of the two saves, each save merging into what the one before wrote.
SaveBothOrders ==
    /\ call.pc = "called"
    /\ call' = [pc |-> "saved", existing |-> call.existing, A |-> call.A, B |-> call.B,
                AthenB |-> Combine(Combine(call.existing, BucketOf(call.A)),
                                   BucketOf(call.B))["cocain"],
                BthenA |-> Combine(Combine(call.existing, BucketOf(call.B)),
                                   BucketOf(call.A))["cocain"]]
    /\ UNCHANGED <<now, storeVars, fx, dashVars>>

NextMerge == SaveBothOrders

SpecMerge == InitMerge /\ [][NextMerge]_vars

-----------------------------------------------------------------------------
(* Number: IEEE-754 binary64 arithmetic, round to nearest, ties to even.    *)
(* A natural number beyond the machine integers is the sequence of its      *)
(* digits to base Radix, lowest first, with no leading zero (0 is <<>>).    *)
(* A Number is [neg, m, e], of value m * 2^e, negated when neg, with m odd, *)
(* or Zero.  Infinities, NaN and the limits of the exponent are left out:   *)
(* prices are far from them.                                                *)

\* Binary digits in the significand of a Number.
MantissaBits == 53

\* Binary digits in one digit of a natural number.
RadixBits == 15

Radix == 2^RadixBits

Digit(a, i) == IF i <= Len(a) THEN a[i] ELSE 0

\* Binary digit i of a, counted from 1 at the lowest.
Bit(a, i) == (Digit(a, (i - 1) \div RadixBits + 1) \div 2^((i - 1) % RadixBits)) % 2

BitLen(a) ==
    IF a = <<>> THEN 0
    ELSE RadixBits * (Len(a) - 1)
         + (CHOOSE k \in 1..RadixBits : 2^(k - 1) <= a[Len(a)] /\ a[Len(a)] < 2^k)

RECURSIVE Trim(_)
Trim(a) == IF a = <<>> \/ a[Len(a)] # 0 THEN a ELSE Trim(SubSeq(a, 1, Len(a) - 1))

RECURSIVE NatDigits(_)
NatDigits(n) == IF n = 0 THEN <<>> ELSE <<n % Radix>> \o NatDigits(n \div Radix)

RECURSIVE AddFrom(_, _, _, _)
AddFrom(a, b, i, carry) ==
    IF i > Len(a) /\ i > Len(b) THEN (IF carry = 0 THEN <<>> ELSE <<carry>>)
    ELSE LET t == Digit(a, i) + Digit(b, i) + carry
         IN  <<t % Radix>> \o AddFrom(a, b, i + 1, t \div Radix)

BigAdd(a, b) == AddFrom(a, b, 1, 0)

RECURSIVE SubFrom(_, _, _, _)
SubFrom(a, b, i, borrow) ==
    IF i > Len(a) THEN <<>>
    ELSE LET t == a[i] - Digit(b, i) - borrow
         IN  <<t % Radix>> \o SubFrom(a, b, i + 1, IF t < 0 THEN 1 ELSE 0)

\* a - b, for a >= b.
BigSub(a, b) == Trim(SubFrom(a, b, 1, 0))

BigLess(a, b) ==
    IF Len(a) # Len(b) THEN Len(a) < Len(b)
    ELSE \E i \in 1..Len(a) :
            a[i] < b[i] /\ \A j \in (i + 1)..Len(a) : a[j] = b[j]

RECURSIVE ScaleFrom(_, _, _, _)
ScaleFrom(a, d, i, carry) ==
    IF i > Len(a) THEN (IF carry = 0 THEN <<>> ELSE <<carry>>)
    ELSE LET t == a[i] * d + carry
         IN  <<t % Radix>> \o ScaleFrom(a, d, i + 1, t \div Radix)

\* a * d, for one digit d.
Scale(a, d) == IF d = 0 THEN <<>> ELSE ScaleFrom(a, d, 1, 0)

RECURSIVE MulFrom(_, _, _)
MulFrom(a, b, i) ==
    IF i > Len(b) THEN <<>>
    ELSE LET rest == MulFrom(a, b, i + 1)
         IN  BigAdd(Scale(a, b[i]), IF rest = <<>> THEN <<>> ELSE <<0>> \o rest)

BigMul(a, b) == MulFrom(a, b, 1)

\* The digits i..1 of a divided by one digit d, rem being left of the higher digits.
RECURSIVE ShortDivFrom(_, _, _, _)
ShortDivFrom(a, d, i, rem) ==
    IF i = 0 THEN <<>>
    ELSE LET t == rem * Radix + a[i]
         IN  Append(ShortDivFrom(a, d, i - 1, t % d), t \div d)

\* a * 2^k
Shl(a, k) ==
    IF a = <<>> THEN <<>>
    ELSE [i \in 1..(k \div RadixBits) |-> 0] \o Scale(a, 2^(k % RadixBits))

\* a \div 2^k
Shr(a, k) ==
    IF k \div RadixBits >= Len(a) THEN <<>>
    ELSE LET high == SubSeq(a, k \div RadixBits + 1, Len(a))
         IN  Trim(ShortDivFrom(high, 2^(k % RadixBits), Len(high), 0))

\* One step of long division, one binary digit a step: r is what is left of the
\* dividend, q the quotient so far, k the steps to go.
DivStep(s) ==
    LET twice == BigAdd(s.r, s.r)
        q2    == BigAdd(s.q, s.q)
    IN  IF BigLess(twice, s.y)
        THEN [r |-> twice, y |-> s.y, q |-> q2, k |-> s.k - 1]
        ELSE [r |-> BigSub(twice, s.y), y |-> s.y, q |-> BigAdd(q2, <<1>>), k |-> s.k - 1]

RECURSIVE DivSteps(_)
DivSteps(s) == IF s.k = 0 THEN s ELSE DivSteps(DivStep(s))

\* r * 2^k divided by y, for r < y: quotient q and remainder r.
BigDiv(r, y, k) == DivSteps([r |-> r, y |-> y, q |-> <<>>, k |-> k])

\* One step of the integer square root, one binary digit a step: k is the position
\* of the digit tried, q the root so far, r what is left of the radicand.
SqrtStep(s) ==
    LET bit == Shl(<<1>>, s.k)
        try == BigAdd(s.q, bit)
    IN  IF BigLess(s.r, try)
        THEN [r |-> s.r, q |-> Shr(s.q, 1), k |-> s.k - 2]
        ELSE [r |-> BigSub(s.r, try), q |-> BigAdd(Shr(s.q, 1), bit), k |-> s.k - 2]

RECURSIVE SqrtSteps(_)
SqrtSteps(s) == IF s.k < 0 THEN s ELSE SqrtSteps(SqrtStep(s))

\* The integer square root q of n # 0 and what is left, r = n - q * q.
BigSqrt(n) == SqrtSteps([r |-> n, q |-> <<>>, k |-> 2 * ((BitLen(n) - 1) \div 2)])

Zero == [neg |-> FALSE, m |-> <<>>, e |-> 0]

\* The Number of value m * 2^e, for m # 0 of at most MantissaBits binary digits.
Canonical(neg, m, e) ==
    IF m = <<>> THEN Zero
    ELSE LET z == CHOOSE k \in 0..(BitLen(m) - 1) :
                      Bit(m, k + 1) = 1 /\ \A j \in 1..k : Bit(m, j) = 0
         IN  [neg |-> neg, m |-> Shr(m, z), e |-> e + z]

\* The Number nearest to m * 2^e, or to a little more than that when inexact;
\* halfway cases go to the even significand.
RoundToNumber(neg, m, e, inexact) ==
    IF BitLen(m) <= MantissaBits THEN Canonical(neg, m, e)
    ELSE LET d     == BitLen(m) - MantissaBits
             kept  == Shr(m, d)
             below == inexact \/ \E i \in 1..(d - 1) : Bit(m, i) = 1
             up    == Bit(m, d) = 1 /\ (below \/ Bit(kept, 1) = 1)
         IN  Canonical(neg, IF up THEN BigAdd(kept, <<1>>) ELSE kept, e + d)

FromInt(n) == Canonical(n < 0, NatDigits(IF n < 0 THEN -n ELSE n), 0)

Negate(x) == IF x = Zero THEN Zero ELSE [x EXCEPT !.neg = ~x.neg]

\* |x| < |y|
SmallerThan(x, y) ==
    LET e == IF x.e < y.e THEN x.e ELSE y.e
    IN  BigLess(Shl(x.m, x.e - e), Shl(y.m, y.e - e))

\* x < y
Less(x, y) ==
    IF x.neg # y.neg THEN x.neg
    ELSE IF x.neg THEN SmallerThan(y, x) ELSE SmallerThan(x, y)

Leq(x, y) == x = y \/ Less(x, y)

\* x + y
Plus(x, y) ==
    LET e == IF x.e < y.e THEN x.e ELSE y.e
        a == Shl(x.m, x.e - e)
        b == Shl(y.m, y.e - e)
    IN  IF x.neg = y.neg THEN RoundToNumber(x.neg, BigAdd(a, b), e, FALSE)
        ELSE IF BigLess(a, b) THEN RoundToNumber(y.neg, BigSub(b, a), e, FALSE)
        ELSE RoundToNumber(x.neg, BigSub(a, b), e, FALSE)

\* x - y
Minus(x, y) == Plus(x, Negate(y))

\* x * y
Times(x, y) == RoundToNumber(x.neg # y.neg, BigMul(x.m, y.m), x.e + y.e, FALSE)

\* x / y, for y other than 0: the significands are aligned so that x's is the
\* smaller one, and the quotient is taken to MantissaBits + 4 binary places.
DividedBy(x, y) ==
    IF x = Zero THEN Zero
    ELSE LET s == BitLen(x.m) - BitLen(y.m) + 1
             a == IF s < 0 THEN Shl(x.m, 0 - s) ELSE x.m
             b == IF s > 0 THEN Shl(y.m, s) ELSE y.m
             k == MantissaBits + 4
             d == BigDiv(a, b, k)
         IN  RoundToNumber(x.neg # y.neg, d.q, x.e - y.e + s - k, d.r # <<>>)

\* Math.sqrt(x), for x >= 0: the root of the significand taken with an even
\* exponent and more than 2 * MantissaBits binary digits.
MathSqrt(x) ==
    IF x = Zero THEN Zero
    ELSE LET k0 == 2 * MantissaBits + 6 - BitLen(x.m)
             k  == k0 + ((x.e - k0) % 2)
             s  == BigSqrt(Shl(x.m, k))
         IN  RoundToNumber(FALSE, s.q, (x.e - k) \div 2, s.r # <<>>)

\* Math.round(x), for x >= 0: the nearest integer, halves upwards.
MathRound(x) ==
    IF x.e >= 0 THEN x
    ELSE LET whole == Shr(x.m, 0 - x.e)
         IN  Canonical(FALSE, IF Bit(x.m, 0 - x.e) = 1 THEN BigAdd(whole, <<1>>) ELSE whole, 0)

-----------------------------------------------------------------------------
(* Helper functions of the dashboard *)

\* array.reduce((a, b) => a + b) over the first n elements, for n >= 1.
RECURSIVE reduce(_, _)
reduce(array, n) == IF n = 1 THEN array[1] ELSE Plus(reduce(array, n - 1), array[n])

Deviation(x, mean) == Minus(x, mean)

\* Math.pow(x - mean, 2)
SquaredDeviation(x, mean) == Times(Minus(x, mean), Minus(x, mean))

getStandardDeviation(array) ==
    IF array = <<>> THEN Zero
    ELSE LET n    == FromInt(Len(array))
             mean == DividedBy(reduce(array, Len(array)), n)
             squares == [i \in 1..Len(array) |-> SquaredDeviation(array[i], mean)]
         IN  MathSqrt(DividedBy(reduce(squares, Len(array)), n))

\* The Number a price of h hundredths is read as.
PriceOf(h) == DividedBy(FromInt(h), FromInt(100))

\* Prices 0.1, 5, 10.12 and 10.13.
SomePrices == {PriceOf(h) : h \in {10, 500, 1012, 1013}}

MaxLen == 3

ArraysUpTo(n) == UNION {[1..k -> SomePrices] : k \in 0..n}

InitDeviation ==
    /\ now = FirstNow
    /\ \E array \in ArraysUpTo(MaxLen) : call = [pc |-> "called", array |-> array]
    /\ OnlyCall

ReturnDeviation ==
    /\ call.pc = "called"
    /\ call' = [pc |-> "returned", array |-> call.array,
                out |-> getStandardDeviation(call.array)]
    /\ UNCHANGED <<now, storeVars, fx, dashVars>>

NextDeviation == ReturnDeviation

SpecDeviation == InitDeviation /\ [][NextDeviation]_vars

\* array.slice(start, end), for 0 <= start <= end <= array.length.
slice(array, start, end) == SubSeq(array, start + 1, end)

FirstIndexLate(windowSize) == windowSize

\* The index the loop of getMovingAverage starts at.
FirstIndex(windowSize) == windowSize - 1

\* What the loop pushes from index i on.
RECURSIVE MovingFrom(_, _, _)
MovingFrom(data, windowSize, i) ==
    IF ~(i < Len(data)) THEN <<>>
    ELSE LET window == slice(data, i - windowSize + 1, i + 1)
             avg    == DividedBy(reduce(window, Len(window)), FromInt(windowSize))
         IN  <<avg>> \o MovingFrom(data, windowSize, i + 1)

getMovingAverage(data, windowSize) ==
    IF data = <<>> \/ windowSize <= 0 THEN <<>>
    ELSE MovingFrom(data, windowSize, FirstIndex(windowSize))

InitMoving ==
    /\ now = FirstNow
    /\ \E data \in ArraysUpTo(MaxLen), windowSize \in (0 - 1)..(MaxLen + 1) :
          call = [pc |-> "called", data |-> data, windowSize |-> windowSize]
    /\ OnlyCall

ReturnMoving ==
    /\ call.pc = "called"
    /\ call' = [pc |-> "returned", data |-> call.data, windowSize |-> call.windowSize,
                out |-> getMovingAverage(call.data, call.windowSize)]
    /\ UNCHANGED <<now, storeVars, fx, dashVars>>

NextMoving == ReturnMoving

SpecMoving == InitMoving /\ [][NextMoving]_vars

-----------------------------------------------------------------------------
(* HomePage: the initial load and the periodic refresh of the dashboard *)

Min(S) == CHOOSE x \in S : \A y \in S : x <= y

Max(S) == CHOOSE x \in S : \A y \in S : x >= y

\* Object.entries order of the item keys.
ItemOrder == <<"cocain", "sword">>

\* Date.getHours on a clock ahead of UTC.
getHours(t) == (t + Max(ZoneOffsets)) % HoursPerDay

getUTCHours(t) == t % HoursPerDay

\* The flat record pushed for one price record of itemName.
FlatOf(itemName, record) ==
    LET date == DateParse(record.timestamp)
    IN  [item |-> itemName, timestamp |-> date, price |-> record.price,
         hour |-> getUTCHours(date), day |-> toISOString(date)[1]]

RECURSIVE InsertFlat(_, _)
InsertFlat(sorted, d) ==
    IF sorted = <<>> THEN <<d>>
    ELSE IF sorted[Len(sorted)].timestamp - d.timestamp <= 0
         THEN Append(sorted, d)
         ELSE Append(InsertFlat(SubSeq(sorted, 1, Len(sorted) - 1), d), sorted[Len(sorted)])

RECURSIVE sortFlat(_)
sortFlat(s) ==
    IF s = <<>> THEN <<>>
    ELSE InsertFlat(sortFlat(SubSeq(s, 1, Len(s) - 1)), s[Len(s)])

RECURSIVE PushAll(_, _)
PushAll(items, n) ==
    IF n = 0 THEN <<>>
    ELSE PushAll(items, n - 1) \o
         (IF ItemOrder[n] \in DOMAIN items
          THEN [i \in 1..Len(items[ItemOrder[n]]) |-> FlatOf(ItemOrder[n], items[ItemOrder[n]][i])]
          ELSE <<>>)

\* flatData after the loops and the sort.
Flatten(items) == sortFlat(PushAll(items, Len(ItemOrder)))

Days(flatData) == {flatData[i].day : i \in 1..Len(flatData)}

\* prices of setCurrentPrices: the first record's price of every item that has records.
CurrentPricesOf(items) ==
    [item \in {i \in DOMAIN items : Len(items[i]) > 0} |-> items[item][1].price]

HttpMessage(status) == IF status = 0 THEN "fetch failed" ELSE "Error HTTP: " \o ToString(status)

\* catch and finally of fetchData.
LoadFailed(message) ==
    /\ ui' = [ui EXCEPT !.error = message, !.loading = FALSE]
    /\ dload' = [dload EXCEPT !.pc = "failed"]

\* fetchData from the validity test of data on.
LoadEnds(state, data) ==
    LET flatData == Flatten(data)
    IN  IF flatData = <<>>
        THEN /\ ui' = [state EXCEPT !.error = "No se encontraron datos validos para procesar",
                                    !.loading = FALSE]
             /\ dload' = [dload EXCEPT !.pc = "failed"]
        ELSE /\ ui' = [state EXCEPT !.rawData = flatData,
                                    !.selectedDay = Min(Days(flatData)),
                                    !.startDate = Min(Days(flatData)),
                                    !.endDate = Max(Days(flatData)),
                                    !.loading = FALSE]
             /\ dload' = [dload EXCEPT !.pc = "done"]

\* The buckets an earlier run of the store can have left for the first week.
PastInstants == {FirstNow - HoursPerDay - 1, FirstNow - 1}

PastBuckets ==
    {Combine(BuildRawData(a, s), BuildRawData(b, t)) :
        a \in CycleBodies, b \in CycleBodies, s \in PastInstants, t \in PastInstants}

InitDash ==
    /\ now = FirstNow
    /\ dirExists \in BOOLEAN
    /\ \/ files = [k \in {} |-> EmptyItems]
       \/ /\ dirExists
          /\ \E bucket \in PastBuckets :
                files = [k \in {getWeeklyFileName(FirstNow, ServerZone)} |-> bucket]
    /\ cyc = [c \in Cycles |-> IdleCycle]
    /\ ticks = 0
    /\ timer = FALSE
    /\ thrown = FALSE
    /\ fx = FxIdle
    /\ call = NoCall
    /\ ui = UiInitial
    /\ dload = [pc |-> "fetching1", key |-> <<0, 0>>]
    /\ dcyc = [c \in 1..MaxTicks |-> "idle"]
    /\ dticks = 0
    /\ interval = TRUE

\* A request of fetchData ends.
LoadFetchDone(status) ==
    /\ dload.pc \in {"fetching1", "fetching2"}
    /\ IF status # 0 /\ ResponseOk(status)
       THEN /\ dload' = [dload EXCEPT !.pc = IF dload.pc = "fetching1" THEN "parsing1"
                                                                      ELSE "parsing2"]
            /\ UNCHANGED ui
       ELSE LoadFailed(HttpMessage(status))
    /\ UNCHANGED <<now, storeVars, fx, dcyc, dticks, interval, call>>

LoadJsonFail ==
    /\ dload.pc \in {"parsing1", "parsing2"}
    /\ LoadFailed("Unexpected token")
    /\ UNCHANGED <<now, storeVars, fx, dcyc, dticks, interval, call>>

\* loadWeeklyPrices of fetchData once the directory is there.
LoadLookup(state, key) ==
    IF FileExists(key)
    THEN ui' = state /\ dload' = [dload EXCEPT !.pc = "reading", !.key = key]
    ELSE LoadEnds(state, EmptyItems)

\* The first fetch returns: current prices are set and loadWeeklyPrices starts.
LoadJsonOk1(data) ==
    /\ dload.pc = "parsing1"
    /\ LET state == [ui EXCEPT !.currentPrices = CurrentPricesOf(BuildRawData(data, now))]
           key   == getWeeklyFileName(now, ServerZone)
       IN  IF dirExists THEN LoadLookup(state, key)
           ELSE ui' = state /\ dload' = [dload EXCEPT !.pc = "mkdir", !.key = key]
    /\ UNCHANGED <<now, storeVars, fx, dcyc, dticks, interval, call>>

\* A catch that warns and goes on without data.
FallbackDataNone(data, t) == EmptyItems

\* data of fetchData after the catch of loadWeeklyPrices: what the second
\* fetchPricesFromAPI returns.
FallbackData(data, t) == BuildRawData(data, t)

\* The fallback fetch returns.
LoadJsonOk2(data) ==
    /\ dload.pc = "parsing2"
    /\ LoadEnds(ui, FallbackData(data, now))
    /\ UNCHANGED <<now, storeVars, fx, dcyc, dticks, interval, call>>

LoadMkdirOk ==
    /\ dload.pc = "mkdir"
    /\ dirExists' = TRUE
    /\ LoadLookup(ui, dload.key)
    /\ UNCHANGED <<now, files, cyc, ticks, timer, thrown, fx, dcyc, dticks, interval, call>>

\* loadWeeklyPrices throws: fetchData falls back to a second fetch.
LoadMkdirFail ==
    /\ dload.pc = "mkdir"
    /\ dload' = [dload EXCEPT !.pc = "fetching2"]
    /\ UNCHANGED <<now, storeVars, fx, ui, dcyc, dticks, interval, call>>

LoadReadOk ==
    /\ dload.pc = "reading"
    /\ LoadEnds(ui, files[dload.key])
    /\ UNCHANGED <<now, storeVars, fx, dcyc, dticks, interval, call>>

LoadReadFail ==
    /\ dload.pc = "reading"
    /\ dload' = [dload EXCEPT !.pc = "fetching2"]
    /\ UNCHANGED <<now, storeVars, fx, ui, dcyc, dticks, interval, call>>

DashTickGuardUncleared == dticks < MaxTicks

\* setInterval fires as long as clearInterval has not run.
DashTickGuard == interval /\ dticks < MaxTicks

\* The updateInterval callback starts its fetch.
DashTick ==
    /\ DashTickGuard
    /\ dticks' = dticks + 1
    /\ dcyc' = [dcyc EXCEPT ![dticks + 1] = "fetching"]
    /\ UNCHANGED <<now, storeVars, fx, ui, dload, interval, call>>

\* A catch that shows the failure as fetchData's catch does.
OnRefreshErrorShown(state) == [state EXCEPT !.error = "fetch failed"]

\* The callback's catch: the error is logged and the state is not touched.
OnRefreshError(state) == state

DashFetchDone(c, status) ==
    /\ dcyc[c] = "fetching"
    /\ dcyc' = [dcyc EXCEPT ![c] = IF status # 0 /\ ResponseOk(status)
                                   THEN "parsing" ELSE "fetchError"]
    /\ ui' = IF status # 0 /\ ResponseOk(status) THEN ui ELSE OnRefreshError(ui)
    /\ UNCHANGED <<now, storeVars, fx, dload, dticks, interval, call>>

DashJsonFail(c) ==
    /\ dcyc[c] = "parsing"
    /\ dcyc' = [dcyc EXCEPT ![c] = "fetchError"]
    /\ ui' = OnRefreshError(ui)
    /\ UNCHANGED <<now, storeVars, fx, dload, dticks, interval, call>>

\* The records the callback flattens.
RefreshSource(newData) == newData

RefreshedClearingError(state, newData) ==
    [state EXCEPT !.currentPrices = CurrentPricesOf(newData), !.error = "null"]

\* The state the callback leaves: current prices and, when there are records, rawData.
Refreshed(state, newData) ==
    LET flatData == Flatten(RefreshSource(newData))
    IN  [state EXCEPT !.currentPrices = CurrentPricesOf(newData),
                      !.rawData = IF Len(flatData) > 0 THEN flatData ELSE state.rawData]

\* The callback's fetch returns.
DashJsonOk(c, data) ==
    /\ dcyc[c] = "parsing"
    /\ dcyc' = [dcyc EXCEPT ![c] = "done"]
    /\ ui' = Refreshed(ui, BuildRawData(data, now))
    /\ UNCHANGED <<now, storeVars, fx, dload, dticks, interval, call>>

\* The effect's cleanup.
Unmount ==
    /\ interval
    /\ interval' = FALSE
    /\ UNCHANGED <<now, storeVars, fx, ui, dload, dcyc, dticks, call>>

\* What HomePage returns for a state: the loading notice, the error panel with its
\* message, or the dashboard with its charts.
Render(state) ==
    IF state.loading THEN [panel |-> "loading", message |-> "null"]
    ELSE IF state.error # "null" THEN [panel |-> "error", message |-> state.error]
    ELSE [panel |-> "dashboard", message |-> "null"]

NextDash ==
    \/ Advance
    \/ \E status \in Statuses : LoadFetchDone(status)
    \/ LoadJsonFail
    \/ \E data \in CycleBodies : LoadJsonOk1(data)
    \/ \E data \in CycleBodies : LoadJsonOk2(data)
    \/ LoadMkdirOk
    \/ LoadMkdirFail
    \/ LoadReadOk
    \/ LoadReadFail
    \/ DashTick
    \/ \E c \in 1..MaxTicks, status \in Statuses : DashFetchDone(c, status)
    \/ \E c \in 1..MaxTicks : DashJsonFail(c)
    \/ \E c \in 1..MaxTicks, data \in CycleBodies : DashJsonOk(c, data)
    \/ Unmount

SpecDash == InitDash /\ [][NextDash]_vars

-----------------------------------------------------------------------------
(* HomePage: the date controls *)

DateRanges == {"single", "range", "all"}

\* The options of the three day selects.
availableDays(state) == Days(state.rawData)

\* The controls are part of the dashboard: they are not there while the
\* loading notice or the error panel is shown.
ControlsShown == Render(ui).panel = "dashboard"

SelectDateRange(mode) ==
    /\ ControlsShown
    /\ ui' = [ui EXCEPT !.dateRange = mode]
    /\ UNCHANGED <<now, storeVars, fx, dload, dcyc, dticks, interval, call>>

SelectDay(day) ==
    /\ ControlsShown
    /\ ui.dateRange = "single"
    /\ day \in availableDays(ui)
    /\ ui' = [ui EXCEPT !.selectedDay = day]
    /\ UNCHANGED <<now, storeVars, fx, dload, dcyc, dticks, interval, call>>

SelectStartDate(day) ==
    /\ ControlsShown
    /\ ui.dateRange = "range"
    /\ day \in availableDays(ui)
    /\ ui' = [ui EXCEPT !.startDate = day]
    /\ UNCHANGED <<now, storeVars, fx, dload, dcyc, dticks, interval, call>>

SelectEndDate(day) ==
    /\ ControlsShown
    /\ ui.dateRange = "range"
    /\ day \in availableDays(ui)
    /\ ui' = [ui EXCEPT !.endDate = day]
    /\ UNCHANGED <<now, storeVars, fx, dload, dcyc, dticks, interval, call>>

\* The days a select can offer in the model.
ModelDays == {t \div HoursPerDay : t \in (FirstNow - HoursPerDay - 1)..(FirstNow + MaxAdvance)}

\* The dashboard over a weekly file that a run of the store has left.
InitDashUser ==
    /\ InitDash
    /\ dirExists
    /\ \E body \in CycleBodies :
          /\ DOMAIN body # {}
          /\ files = [k \in {getWeeklyFileName(FirstNow, ServerZone)} |->
                         BuildRawData(body, FirstNow - HoursPerDay - 1)]

NextDashUser ==
    \/ Advance
    \/ \E status \in Statuses : LoadFetchDone(status)
    \/ LoadJsonFail
    \/ \E data \in CycleBodies : LoadJsonOk1(data)
    \/ \E data \in CycleBodies : LoadJsonOk2(data)
    \/ LoadReadOk
    \/ LoadReadFail
    \/ DashTick
    \/ \E c \in 1..MaxTicks, status \in Statuses : DashFetchDone(c, status)
    \/ \E c \in 1..MaxTicks : DashJsonFail(c)
    \/ \E c \in 1..MaxTicks, data \in CycleBodies : DashJsonOk(c, data)
    \/ Unmount
    \/ \E mode \in DateRanges : SelectDateRange(mode)
    \/ \E day \in ModelDays : SelectDay(day)
    \/ \E day \in ModelDays : SelectStartDate(day)
    \/ \E day \in ModelDays : SelectEndDate(day)

SpecDashUser == InitDashUser /\ [][NextDashUser]_vars

-----------------------------------------------------------------------------
(* The flattening of a weekly bucket *)

\* Records of two days and three hours, as the store writes them.
StoredRecords ==
    {[timestamp |-> toISOString(t), price |-> p] :
        t \in {FirstNow - HoursPerDay, FirstNow - 1, FirstNow}, p \in {500, 1012}}

\* Series as saveWeeklyPrices leaves them: sorted by timestamp.
StoredSeries == {s \in UNION {[1..k -> StoredRecords] : k \in 0..MaxSeries} : sort(s) = s}

StoredBuckets == UNION {[S -> StoredSeries] : S \in SUBSET Items}

InitFlat ==
    /\ now = FirstNow
    /\ \E items \in StoredBuckets : call = [pc |-> "called", items |-> items]
    /\ OnlyCall

FlattenBucket ==
    /\ call.pc = "called"
    /\ call' = [pc |-> "flattened", items |-> call.items, out |-> Flatten(call.items)]
    /\ UNCHANGED <<now, storeVars, fx, dashVars>>

NextFlat == FlattenBucket

SpecFlat == InitFlat /\ [][NextFlat]_vars

-----------------------------------------------------------------------------
(* getDailyStats, on the flat records of one item *)

\* The keys of an object in ascending order.
RECURSIVE AscendingOrder(_)
AscendingOrder(keys) ==
    IF keys = <<>> THEN <<>>
    ELSE LET least == Min({keys[i] : i \in 1..Len(keys)})
         IN  <<least>> \o AscendingOrder(SelectSeq(keys, LAMBDA k : k # least))

\* The keys of a Set or of an object with string keys, in insertion order.
RECURSIVE InsertionOrder(_)
InsertionOrder(keys) ==
    IF keys = <<>> THEN <<>>
    ELSE LET front == InsertionOrder(SubSeq(keys, 1, Len(keys) - 1))
         IN  IF \E i \in 1..Len(front) : front[i] = keys[Len(keys)]
             THEN front ELSE Append(front, keys[Len(keys)])

\* Object.keys(dailyGroups): the days, each where it was first seen.
GroupKeys(data) == InsertionOrder([i \in 1..Len(data) |-> data[i].day])

\* dailyGroups[day]: the prices of the records of the day, in their order.
GroupOf(data, day) ==
    LET group == SelectSeq(data, LAMBDA d : d.day = day)
    IN  [i \in 1..Len(group) |-> group[i].price]

\* Math.min(...prices) and Math.max(...prices), for a non-empty prices.
MathMin(prices) ==
    CHOOSE x \in {prices[i] : i \in 1..Len(prices)} :
        \A i \in 1..Len(prices) : Leq(x, prices[i])

MathMax(prices) ==
    CHOOSE x \in {prices[i] : i \in 1..Len(prices)} :
        \A i \in 1..Len(prices) : Leq(prices[i], x)

getDailyStats(data) ==
    IF data = <<>> THEN <<>>
    ELSE LET keys == GroupKeys(data)
         IN  [k \in 1..Len(keys) |->
                LET prices == GroupOf(data, keys[k])
                IN  [day   |-> keys[k],
                     avg   |-> DividedBy(reduce(prices, Len(prices)), FromInt(Len(prices))),
                     min   |-> MathMin(prices),
                     max   |-> MathMax(prices),
                     std   |-> getStandardDeviation(prices),
                     count |-> Len(prices)]]

MaxRecords == 3

\* Records of one item: prices 0.1, 1, 2 and 3 on one day, price 1 on the day before.
DailyRecords ==
    {FlatOf("cocain", [timestamp |-> toISOString(FirstNow), price |-> h])
        : h \in {10, 100, 200, 300}}
    \cup {FlatOf("cocain", [timestamp |-> toISOString(FirstNow - HoursPerDay), price |-> 100])}

\* The flat record with its price as the Number it is.
WithNumber(d) == [d EXCEPT !.price = PriceOf(d.price)]

InitDaily ==
    /\ now = FirstNow
    /\ \E k \in 0..MaxRecords : \E data \in [1..k -> DailyRecords] :
          call = [pc |-> "called", data |-> [i \in 1..k |-> WithNumber(data[i])]]
    /\ OnlyCall

ReturnDaily ==
    /\ call.pc = "called"
    /\ call' = [pc |-> "returned", data |-> call.data, out |-> getDailyStats(call.data)]
    /\ UNCHANGED <<now, storeVars, fx, dashVars>>

NextDaily == ReturnDaily

SpecDaily == InitDaily /\ [][NextDaily]_vars

-----------------------------------------------------------------------------
(* heatmapData, in the two revisions of HomePage *)

\* The cell of no record.
null == [null |-> TRUE]

\* The revisions of HomePage: src/unnamed/part_001 and src/src/app/page.tsx.
Revisions == {"part_001", "page.tsx"}

\* The items as Array.prototype.sort orders strings, by their code units.
CodeUnitOrder == <<"cocain", "sword">>

\* item.charAt(0).toUpperCase() + item.slice(1)
Capitalised == [cocain |-> "Cocain", sword |-> "Sword"]

\* [...new Set(names)].sort()
SortedSet(names) ==
    SelectSeq(CodeUnitOrder, LAMBDA item : \E i \in 1..Len(names) : names[i] = item)

\* entry.total after the forEach: 0, then += d.price for each record of the key.
RECURSIVE TotalOf(_, _)
TotalOf(prices, n) == IF n = 0 THEN Zero ELSE Plus(TotalOf(prices, n - 1), prices[n])

\* priceMap.get(`${item},${hour}`), or <<>> for undefined.
EntryOf(filteredData, item, hour) ==
    LET group  == SelectSeq(filteredData, LAMBDA d : d.item = item /\ d.hour = hour)
        prices == [i \in 1..Len(group) |-> group[i].price]
    IN  IF group = <<>> THEN <<>>
        ELSE <<[total |-> TotalOf(prices, Len(prices)), count |-> Len(prices)]>>

\* One cell of z.
CellOf(revision, entry) ==
    IF entry = <<>> THEN null
    ELSE LET mean == DividedBy(entry[1].total, FromInt(entry[1].count))
         IN  IF revision = "part_001"
             THEN DividedBy(MathRound(Times(mean, FromInt(100))), FromInt(100))
             ELSE mean

heatmapData(revision, rawData, timeRange) ==
    LET filteredData == SelectSeq(rawData,
                            LAMBDA d : d.hour >= timeRange[1] /\ d.hour <= timeRange[2])
        items == SortedSet([i \in 1..Len(filteredData) |-> filteredData[i].item])
        hours == [i \in 1..(timeRange[2] - timeRange[1] + 1) |-> timeRange[1] + i - 1]
    IN  [x |-> hours,
         y |-> [r \in 1..Len(items) |->
                   IF revision = "part_001" THEN Capitalised[items[r]] ELSE items[r]],
         z |-> [r \in 1..Len(items) |->
                   [c \in 1..Len(hours) |->
                       CellOf(revision, EntryOf(filteredData, items[r], hours[c]))]]]

\* Records at one hour of two days and at the next hour, of both items.
HeatRecords ==
    {WithNumber(FlatOf("cocain", [timestamp |-> toISOString(FirstNow - HoursPerDay), price |-> h]))
        : h \in {100, 200, 1012}}
    \cup {WithNumber(FlatOf("cocain", [timestamp |-> toISOString(FirstNow), price |-> h]))
        : h \in {101, 400, 1013}}
    \cup {WithNumber(FlatOf("sword", [timestamp |-> toISOString(t), price |-> 500]))
        : t \in {FirstNow - HoursPerDay, FirstNow + 1}}

\* rawData as fetchData leaves it: in the order of the timestamps.
HeatData ==
    {data \in UNION {[1..k -> HeatRecords] : k \in 0..MaxRecords} :
        \A i \in 1..(Len(data) - 1) : data[i].timestamp <= data[i + 1].timestamp}

\* Positions of the hour slider: the whole day, one hour, the last two hours,
\* the hours before them.
TimeRanges ==
    {<<0, HoursPerDay - 1>>, <<getUTCHours(FirstNow), getUTCHours(FirstNow)>>,
     <<getUTCHours(FirstNow), getUTCHours(FirstNow + 1)>>,
     <<0, getUTCHours(FirstNow) - 1>>}

InitHeat ==
    /\ now = FirstNow
    /\ \E revision \in Revisions, rawData \in HeatData, timeRange \in TimeRanges :
          call = [pc |-> "called", revision |-> revision,
                  rawData |-> rawData, timeRange |-> timeRange]
    /\ OnlyCall

ReturnHeatmap ==
    /\ call.pc = "called"
    /\ call' = [call EXCEPT !.pc = "returned"] @@
               [out |-> heatmapData(call.revision, call.rawData, call.timeRange)]
    /\ UNCHANGED <<now, storeVars, fx, dashVars>>

NextHeat == ReturnHeatmap

SpecHeat == InitHeat /\ [][NextHeat]_vars

-----------------------------------------------------------------------------
(* The derived views of HomePage, over arrays that are objects *)

\* The arrays live in a heap, a sequence of arrays; a reference is a position
\* in it. rawData is the first array.
RawRef == 1

Elements(array) == {array[i] : i \in 1..Len(array)}

\* A filter that removes the other elements from the array itself.
filterInPlace(heap, ref, kept) ==
    [heap |-> [heap EXCEPT ![ref] = SelectSeq(heap[ref], LAMBDA d : d \in kept)],
     ref  |-> ref]

\* Array.prototype.filter: a new array of the kept elements.
filter(heap, ref, kept) ==
    [heap |-> Append(heap, SelectSeq(heap[ref], LAMBDA d : d \in kept)),
     ref  |-> Len(heap) + 1]

\* Array.prototype.sort by timestamp: sorts the array itself and returns it.
sortInPlace(heap, ref) ==
    [heap |-> [heap EXCEPT ![ref] = sortFlat(heap[ref])], ref |-> ref]

timestamps(array) == [i \in 1..Len(array) |-> array[i].timestamp]

pricesOf(array) == [i \in 1..Len(array) |-> array[i].price]

getFilteredDataByDateRange(heap, c) ==
    LET rawData == heap[RawRef]
    IN  IF c.dateRange = "range"
        THEN filter(heap, RawRef,
                    {d \in Elements(rawData) : d.day >= c.startDate /\ d.day <= c.endDate})
        ELSE IF c.dateRange = "all"
        THEN [heap |-> heap, ref |-> RawRef]
        ELSE filter(heap, RawRef, {d \in Elements(rawData) : d.day = c.selectedDay})

\* The traces of the price evolution chart, in the linear mode: the other
\* modes differ in the y values computed from the same prices, and in labels.
priceEvolutionData(heap, c) ==
    LET f == getFilteredDataByDateRange(heap, c)
        filteredData == f.heap[f.ref]
    IN  IF Len(filteredData) = 0 THEN [heap |-> f.heap, out |-> <<>>]
        ELSE LET f1 == filter(f.heap, f.ref,
                              {d \in Elements(filteredData) : d.item = c.selectedItem})
                 f2 == IF c.selectedItem2 # ""
                       THEN filter(f1.heap, f.ref,
                                   {d \in Elements(filteredData) : d.item = c.selectedItem2})
                       ELSE [heap |-> Append(f1.heap, <<>>), ref |-> Len(f1.heap) + 1]
                 filteredData1 == f2.heap[f1.ref]
                 filteredData2 == f2.heap[f2.ref]
                 trace(array) == IF Len(array) > 0
                                 THEN <<[x |-> timestamps(array), y |-> pricesOf(array)]>>
                                 ELSE <<>>
             IN  [heap |-> f2.heap, out |-> trace(filteredData1) \o trace(filteredData2)]

\* The window of the moving averages of both trend charts.
TrendWindow == 5

\* The trace of the daily averages.
DailyTrace(dailyStats) ==
    <<[x |-> [k \in 1..Len(dailyStats) |-> dailyStats[k].day],
       y |-> [k \in 1..Len(dailyStats) |-> dailyStats[k].avg]]>>

\* The traces of the prices and of their moving average.
HourlyTraces(sortedData, movingAvg) ==
    <<[x |-> timestamps(sortedData), y |-> pricesOf(sortedData)],
      [x |-> timestamps(slice(sortedData, TrendWindow - 1, Len(sortedData))),
       y |-> movingAvg]>>

\* The traces of one item of historicalAnalysisData.
historicalOf(heap, item, trendAnalysisType) ==
    LET f == filter(heap, RawRef, {d \in Elements(heap[RawRef]) : d.item = item})
        s == sortInPlace(f.heap, f.ref)
    IN  IF Len(f.heap[f.ref]) = 0 THEN [heap |-> f.heap, out |-> <<>>]
        ELSE IF trendAnalysisType = "daily"
        THEN [heap |-> f.heap, out |-> DailyTrace(getDailyStats(f.heap[f.ref]))]
        ELSE [heap |-> s.heap,
              out  |-> HourlyTraces(s.heap[s.ref],
                                    getMovingAverage(pricesOf(s.heap[s.ref]), TrendWindow))]

\* The bands with the deviation subtracted above and added below.
BandInverted(avg, std) == [avg |-> avg, upper |-> Minus(avg, std), lower |-> Plus(avg, std)]

\* movingAverages, upperBand and lowerBand at one position.
Band(avg, std) == [avg |-> avg, upper |-> Plus(avg, std), lower |-> Minus(avg, std)]

\* The bands of trendData: the moving average with the deviation of the window
\* added and subtracted.
RECURSIVE BandsFrom(_, _, _)
BandsFrom(prices, windowSize, i) ==
    IF i >= Len(prices) THEN <<>>
    ELSE LET window == slice(prices, i - windowSize + 1, i + 1)
             avg == DividedBy(reduce(window, Len(window)), FromInt(windowSize))
             std == getStandardDeviation(window)
         IN  <<Band(avg, std)>> \o BandsFrom(prices, windowSize, i + 1)

\* The traces of the bands, of the moving average and of the prices.
BandTraces(itemData, bands) ==
    LET adjustedTimestamps == slice(timestamps(itemData), TrendWindow - 1, Len(itemData))
    IN  <<[x |-> adjustedTimestamps, y |-> [k \in 1..Len(bands) |-> bands[k].upper]],
          [x |-> adjustedTimestamps, y |-> [k \in 1..Len(bands) |-> bands[k].lower]],
          [x |-> adjustedTimestamps, y |-> [k \in 1..Len(bands) |-> bands[k].avg]],
          [x |-> timestamps(itemData), y |-> pricesOf(itemData)]>>

\* The traces of one item of trendData.
trendOf(heap, item) ==
    LET f == filter(heap, RawRef, {d \in Elements(heap[RawRef]) : d.item = item})
        s == sortInPlace(f.heap, f.ref)
    IN  IF Len(f.heap[f.ref]) = 0 THEN [heap |-> f.heap, out |-> <<>>]
        ELSE [heap |-> s.heap,
              out  |-> BandTraces(s.heap[s.ref],
                                  BandsFrom(pricesOf(s.heap[s.ref]), TrendWindow,
                                            TrendWindow - 1))]

RECURSIVE MapItems(_, _, _)

\* The traces of one item, then those of the items after the k-th.
Followed(one, c, k) ==
    LET rest == MapItems(one.heap, c, k + 1)
    IN  [heap |-> rest.heap, out |-> one.out \o rest.out]

\* selected.map(...).flat(), from the k-th selected item on.
MapItems(heap, c, k) ==
    IF k > Len(c.selectedItems) THEN [heap |-> heap, out |-> <<>>]
    ELSE Followed(IF c.view = "trendData"
                  THEN trendOf(heap, c.selectedItems[k])
                  ELSE historicalOf(heap, c.selectedItems[k], c.trendAnalysisType),
                  c, k)

historicalAnalysisData(heap, c) == MapItems(heap, c, 1)

trendData(heap, c) == MapItems(heap, c, 1)

\* heatmapData, from its filter on.
heatmapOf(heap, c) ==
    LET f == filter(heap, RawRef,
                    {d \in Elements(heap[RawRef]) :
                        d.hour >= c.timeRange[1] /\ d.hour <= c.timeRange[2]})
    IN  [heap |-> f.heap, out |-> heatmapData("part_001", f.heap[f.ref], c.timeRange)]

MaxHours == 6

\* What fetchData pushes: one record of cocain a day before FirstNow and one
\* at each of the hours up to the hour after FirstNow, then one record of sword.
ViewSeries ==
    [i \in 1..MaxHours |->
        WithNumber(FlatOf("cocain",
            [timestamp |-> toISOString(IF i = 1 THEN FirstNow - HoursPerDay
                                       ELSE FirstNow + 1 - (MaxHours - i)),
             price |-> 100 * i]))]
    \o <<WithNumber(FlatOf("sword", [timestamp |-> toISOString(FirstNow), price |-> 500]))>>

ViewRecords == Elements(ViewSeries)

\* The records of a set as fetchData leaves them: pushed by item, then sorted.
RawDataOf(records) == sortFlat(SelectSeq(ViewSeries, LAMBDA d : d \in records))

\* The state of the hooks as HomePage starts with it.
DefaultView ==
    [dateRange |-> "single", selectedDay |-> NoDay, startDate |-> NoDay, endDate |-> NoDay,
     selectedItem |-> "cocain", selectedItem2 |-> "", selectedItems |-> <<>>,
     trendAnalysisType |-> "daily", timeRange |-> <<0, HoursPerDay - 1>>]

ViewDays == {toISOString(FirstNow - HoursPerDay)[1], toISOString(FirstNow)[1]}

DateRangeViews ==
    {[DefaultView EXCEPT !.dateRange = m, !.selectedDay = d, !.startDate = Min(ViewDays),
                         !.endDate = e] :
        m \in {"single", "range", "all"}, d \in ViewDays, e \in ViewDays}

SelectedItems == {<<>>, <<"cocain">>, <<"sword", "cocain">>}

\* The views and the selections they are computed under.
ViewCalls ==
    {[view |-> "dateRange"] @@ c : c \in DateRangeViews}
    \cup {[view |-> "priceEvolution"] @@ [c EXCEPT !.selectedItem2 = i] :
            c \in DateRangeViews, i \in {"", "sword"}}
    \cup {[view |-> "historicalAnalysis"] @@
          [DefaultView EXCEPT !.selectedItems = s, !.trendAnalysisType = t] :
            s \in SelectedItems, t \in {"daily", "hourly"}}
    \cup {[view |-> "trendData"] @@ [DefaultView EXCEPT !.selectedItems = s] :
            s \in SelectedItems}
    \cup {[view |-> "heatmap"] @@ [DefaultView EXCEPT !.timeRange = r] : r \in TimeRanges}

InitViews ==
    /\ now = FirstNow
    /\ \E records \in SUBSET ViewRecords, c \in ViewCalls :
          call = [pc |-> "called", rawData |-> RawDataOf(records),
                  heap |-> <<RawDataOf(records)>>, out |-> <<>>] @@ c
    /\ OnlyCall

\* The view computed, with the heap it leaves.
Computed(result) ==
    /\ call' = [call EXCEPT !.pc = "computed", !.heap = result.heap, !.out = result.out]
    /\ UNCHANGED <<now, storeVars, fx, dashVars>>

ComputeDateRange ==
    /\ call.pc = "called" /\ call.view = "dateRange"
    /\ LET f == getFilteredDataByDateRange(call.heap, call)
       IN  Computed([heap |-> f.heap, out |-> f.heap[f.ref]])

ComputePriceEvolution ==
    /\ call.pc = "called" /\ call.view = "priceEvolution"
    /\ Computed(priceEvolutionData(call.heap, call))

ComputeHistoricalAnalysis ==
    /\ call.pc = "called" /\ call.view = "historicalAnalysis"
    /\ Computed(historicalAnalysisData(call.heap, call))

ComputeTrendData ==
    /\ call.pc = "called" /\ call.view = "trendData"
    /\ Computed(trendData(call.heap, call))

ComputeHeatmap ==
    /\ call.pc = "called" /\ call.view = "heatmap"
    /\ Computed(heatmapOf(call.heap, call))

NextViews ==
    \/ ComputeDateRange
    \/ ComputePriceEvolution
    \/ ComputeHistoricalAnalysis
    \/ ComputeTrendData
    \/ ComputeHeatmap

SpecViews == InitViews /\ [][NextViews]_vars

-----------------------------------------------------------------------------
(* normalizeData and getPriceRange *)

\* The value as a share of the range, without the minimum taken off.
RescaleUnshifted(value, min, range) == Times(DividedBy(value, range), FromInt(100))

\* ((value - min) / range) * 100
Rescale(value, min, range) == Times(DividedBy(Minus(value, min), range), FromInt(100))

\* For the empty array Math.min() is Infinity and Math.max() is -Infinity, the
\* range is not 0 and the map over no element gives the empty array.
normalizeData(data) ==
    IF data = <<>> THEN <<>>
    ELSE LET min == MathMin(data)
             range == Minus(MathMax(data), min)
         IN  IF range = Zero THEN [i \in 1..Len(data) |-> FromInt(50)]
             ELSE [i \in 1..Len(data) |-> Rescale(data[i], min, range)]

InitNormalize ==
    /\ now = FirstNow
    /\ \E data \in ArraysUpTo(MaxLen) : call = [pc |-> "called", data |-> data]
    /\ OnlyCall

ReturnNormalized ==
    /\ call.pc = "called"
    /\ call' = [pc |-> "returned", data |-> call.data, out |-> normalizeData(call.data)]
    /\ UNCHANGED <<now, storeVars, fx, dashVars>>

NextNormalize == ReturnNormalized

SpecNormalize == InitNormalize /\ [][NextNormalize]_vars

\* The prices of all the records.
PricesOfAll(data, item) == pricesOf(data)

\* data.filter(d => d.item === item).map(d => d.price)
PricesOfItem(data, item) == pricesOf(SelectSeq(data, LAMBDA d : d.item = item))

\* The range of a non-empty prices.
RangeOf(prices) ==
    [min |-> MathMin(prices), max |-> MathMax(prices),
     avg |-> DividedBy(reduce(prices, Len(prices)), FromInt(Len(prices)))]

getPriceRange(data, item) ==
    IF PricesOfItem(data, item) = <<>> THEN [min |-> Zero, max |-> Zero, avg |-> Zero]
    ELSE RangeOf(PricesOfItem(data, item))

\* The records of cocain of DailyRecords and records of sword at 5 and 10.13.
RangeRecords ==
    {WithNumber(d) : d \in DailyRecords}
    \cup {WithNumber(FlatOf("sword", [timestamp |-> toISOString(FirstNow), price |-> h]))
            : h \in {500, 1013}}

InitRange ==
    /\ now = FirstNow
    /\ \E k \in 0..MaxRecords : \E data \in [1..k -> RangeRecords], item \in Items :
          call = [pc |-> "called", data |-> data, item |-> item]
    /\ OnlyCall

ReturnRange ==
    /\ call.pc = "called"
    /\ call' = [pc |-> "returned", data |-> call.data, item |-> call.item,
                out |-> getPriceRange(call.data, call.item)]
    /\ UNCHANGED <<now, storeVars, fx, dashVars>>

NextRange == ReturnRange

SpecRange == InitRange /\ [][NextRange]_vars

-----------------------------------------------------------------------------
(* HomePage of page.tsx: the selections of the price evolution chart *)

\* The value 'all' of the first option of the day select.
AllDays == -2

\* One trace of the chart, or none when the item has no record on the day.
TraceOf(rawData, item, day) ==
    LET filteredData == SelectSeq(rawData, LAMBDA d : d.item = item /\ d.day = day)
    IN  IF Len(filteredData) > 0
        THEN <<[x |-> timestamps(filteredData), y |-> pricesOf(filteredData), name |-> item]>>
        ELSE <<>>

\* priceEvolutionData of page.tsx, for a loaded rawData.
priceEvolutionDataPage(rawData, selectedItem, selectedItem2, selectedDay) ==
    TraceOf(rawData, selectedItem, selectedDay)
        \o (IF selectedItem2 # "" THEN TraceOf(rawData, selectedItem2, selectedDay) ELSE <<>>)

\* The page with its chart recomputed, as useMemo does on every change.
Rendered(page) ==
    [page EXCEPT !.chart = priceEvolutionDataPage(page.rawData, page.selectedItem,
                                                  page.selectedItem2, page.selectedDay)]

\* The page after fetchData: the first day of the data is selected.
InitPage ==
    /\ now = FirstNow
    /\ \E records \in SUBSET ViewRecords :
          call = Rendered([pc |-> "loaded", rawData |-> RawDataOf(records),
                           selectedItem |-> "cocain", selectedItem2 |-> "",
                           selectedDay |-> IF records = {} THEN NoDay
                                           ELSE RawDataOf(records)[1].day,
                           chart |-> <<>>])
    /\ OnlyCall

\* The options of the day select: 'all', then the days of rawData.
DayOptions(rawData) == {AllDays} \cup Days(rawData)

ItemOptions(rawData) == {rawData[i].item : i \in 1..Len(rawData)}

ChooseDay ==
    /\ \E day \in DayOptions(call.rawData) :
          call' = Rendered([call EXCEPT !.selectedDay = day])
    /\ UNCHANGED <<now, storeVars, fx, dashVars>>

ChooseItem ==
    /\ \E item \in ItemOptions(call.rawData) :
          call' = Rendered([call EXCEPT !.selectedItem = item])
    /\ UNCHANGED <<now, storeVars, fx, dashVars>>

ChooseItem2 ==
    /\ \E item \in {""} \cup ItemOptions(call.rawData) :
          call' = Rendered([call EXCEPT !.selectedItem2 = item])
    /\ UNCHANGED <<now, storeVars, fx, dashVars>>

NextPage ==
    \/ ChooseDay
    \/ ChooseItem
    \/ ChooseItem2

SpecPage == InitPage /\ [][NextPage]_vars

-----------------------------------------------------------------------------
(* Properties of the weekly store *)

Time(r) == DateParse(r.timestamp)

Count(s, r) == Cardinality({i \in 1..Len(s) : s[i] = r})

\* Cycle c has written files[k] as it merged it, and nothing has overwritten it since.
Holds(c) == cyc[c].pc = "done" /\ FileExists(cyc[c].key) /\ files[cyc[c].key] = cyc[c].combined

\* C1: in every reachable state every stored sequence of every persisted bucket is
\* ordered by timestamp ascending: each record's timestamp is <= its successor's.
C1_StoredSequencesSorted ==
    \A k \in DOMAIN files : \A item \in DOMAIN files[k] :
        \A i \in 1..(Len(files[k][item]) - 1) :
            Time(files[k][item][i]) <= Time(files[k][item][i + 1])

\* A save whose new record is older than a record it found in the bucket has been persisted.
C1_Witness ==
    \E c \in Cycles : /\ Holds(c)
                      /\ \E item \in DOMAIN cyc[c].newData :
                            \E i \in 1..Len(ItemOf(cyc[c].existing, item)) :
                                Time(cyc[c].existing[item][i]) > Time(cyc[c].newData[item][1])

\* C2: the persisted buckets only grow: every record of every file is still in that
\* file, unaltered, after every step.
C2_BucketOnlyGrows ==
    [][\A k \in DOMAIN files :
          /\ k \in DOMAIN files'
          /\ \A item \in DOMAIN files[k] :
                /\ item \in DOMAIN files'[k]
                /\ \A i \in 1..Len(files[k][item]) :
                      Count(files'[k][item], files[k][item][i])
                          >= Count(files[k][item], files[k][item][i])]_vars

\* C3: saveWeeklyPrices does not deduplicate: for every item of newData the merged
\* sequence is as long as the sequence it loaded plus the new records of that item.
C3_NoDeduplication ==
    \A c \in Cycles : cyc[c].loaded =>
        \A item \in DOMAIN cyc[c].newData :
            /\ item \in DOMAIN cyc[c].combined
            /\ Len(cyc[c].combined[item])
                  = Len(ItemOf(cyc[c].existing, item)) + Len(cyc[c].newData[item])

\* A persisted save whose new record equals, in timestamp and price, a record it loaded.
C3_Witness ==
    \E c \in Cycles : /\ Holds(c)
                      /\ \E item \in DOMAIN cyc[c].newData :
                            /\ Count(ItemOf(cyc[c].existing, item), cyc[c].newData[item][1]) > 0
                            /\ Count(files[cyc[c].key][item], cyc[c].newData[item][1]) > 1

\* Two ticks have saved to the same file from the same loaded bucket, and no third
\* tick has written that file.
Raced(a, b) ==
    /\ a # b /\ a > 0 /\ b > 0
    /\ cyc[a].pc = "done" /\ cyc[b].pc = "done"
    /\ cyc[a].key = cyc[b].key
    /\ cyc[a].existing = cyc[b].existing
    /\ \A o \in Cycles \ {0, a, b} : cyc[o].pc = "done" => cyc[o].key # cyc[a].key

\* C4: when two saves of one week both read the bucket before either writes it, the
\* persisted bucket is the merge of one of them (the one that wrote last), and the new
\* records of the other are absent: each item holds what was loaded plus the winner's
\* new records only.
C4_LastWriteWins ==
    \A a, b \in Cycles : Raced(a, b) =>
        \E w \in {a, b} :
            /\ files[cyc[a].key] = cyc[w].combined
            /\ \A item \in DOMAIN files[cyc[a].key] :
                  Len(files[cyc[a].key][item])
                      = Len(ItemOf(cyc[a].existing, item)) + Len(ItemOf(cyc[w].newData, item))

\* Two raced saves that both brought a record of one item: the file holds only one of them.
C4_Witness ==
    \E a, b \in Cycles :
        /\ Raced(a, b)
        /\ \E item \in DOMAIN cyc[a].newData \cap DOMAIN cyc[b].newData :
              Len(files[cyc[a].key][item]) = Len(ItemOf(cyc[a].existing, item)) + 1

\* C5: the timer starts a cycle at every tick whether or not an earlier cycle has
\* finished: while the timer is installed a tick can always start the next cycle.
C5_TickNeverWaits == (timer /\ ticks < MaxTicks) => ENABLED Tick

\* Two cycles are in flight at once.
C5_Witness == \E a, b \in Cycles : a # b /\ InFlight(a) /\ InFlight(b)

\* C7: a cycle whose request was rejected, whose response had a non-success status or
\* whose body did not parse ends in the fetch error with no data returned, without
\* saveWeeklyPrices having been invoked and without a write to the bucket.
C7_FetchFailureSkipsSave ==
    \A c \in Cycles :
        (cyc[c].status = 0 \/ cyc[c].status >= 300 \/ cyc[c].pc = "fetchError") =>
            /\ cyc[c].pc = "fetchError"
            /\ ~cyc[c].fetched /\ cyc[c].newData = EmptyItems
            /\ ~cyc[c].saveCalled /\ ~cyc[c].loaded /\ cyc[c].writes = 0

\* A tick whose response had status 500 failed while a bucket was persisted.
C7_Witness ==
    \E c \in Cycles : c > 0 /\ cyc[c].status = 500 /\ cyc[c].pc = "fetchError"
                            /\ DOMAIN files # {}

\* C8: a write failure is thrown out of saveWeeklyPrices after a single write attempt
\* (no retry); out of the initial save it rejects startPriceUpdates, in a tick it
\* leaves the timer installed, so that the next tick can still start.
C8_WriteFailureNoRetry ==
    \A c \in Cycles :
        /\ cyc[c].writes <= 1
        /\ cyc[c].pc = "writeError" =>
              /\ cyc[c].writes = 1
              /\ c = 0 => thrown /\ ~timer
              /\ c > 0 => timer /\ (ticks < MaxTicks => ENABLED Tick)

\* A tick failed to write, and a later tick ran its fetch and save to the end.
C8_Witness ==
    \E c, d \in Cycles : c > 0 /\ d > c /\ cyc[c].pc = "writeError" /\ cyc[d].pc = "done"

\* The step in which the loadWeeklyPrices call of cycle c ends, with no file for its key.
LoadEndsWithoutFile(c) ==
    /\ cyc[c].pc \in {"parsing", "mkdir"}
    /\ cyc'[c].pc \notin {"parsing", "mkdir", "fetchError"}
    /\ ~FileExists(cyc'[c].key)

LoadedEmpty(c) ==
    /\ cyc'[c].pc # "loadError"
    /\ cyc'[c].loaded /\ cyc'[c].existing = EmptyItems
    /\ files' = files

-----------------------------------------------------------------------------
(* Properties of the price fetcher *)

Abs(x) == IF x < 0 THEN -x ELSE x

\* C10: the series fetchPricesFromAPI returns holds exactly the items of the response,
\* each with exactly one record, whose price is the upstream price rounded to two
\* decimals (within half a hundredth of it: 10.123 gives 10.12, 5 gives 5) and whose
\* timestamp is the instant of the fetch, the same for all items.
C10_OneRoundedRecordPerItem ==
    fx.pc = "returned" =>
        /\ DOMAIN fx.out = DOMAIN fx.data
        /\ \A item \in DOMAIN fx.out :
              /\ Len(fx.out[item]) = 1
              /\ 2 * Abs(10 * fx.out[item][1].price - fx.data[item]) <= 10
              /\ fx.data[item] = 10123 => fx.out[item][1].price = 1012
              /\ fx.data[item] = 5000 => fx.out[item][1].price = 500
              /\ DateParse(fx.out[item][1].timestamp) = fx.at

\* The call returned the series of the response {cocain: 10.123, sword: 5}.
C10_Witness ==
    /\ fx.pc = "returned"
    /\ DOMAIN fx.data = {"cocain", "sword"}
    /\ fx.data["cocain"] = 10123 /\ fx.data["sword"] = 5000
    /\ fx.out["cocain"][1].price = 1012 /\ fx.out["sword"][1].price = 500

-----------------------------------------------------------------------------
(* Properties of the dashboard refresh *)

\* The bucket of the current week as the store holds it.
CurrentBucket == ItemOf(files, getWeeklyFileName(now, ServerZone))

\* C6: a refresh tick that has fetched records merges them into the weekly bucket and
\* then shows the flattening of that bucket, the new records included.
C6_TickShowsMergedBucket ==
    [][\A c \in 1..MaxTicks :
          (dcyc[c] = "parsing" /\ dcyc'[c] = "done" /\ ui'.currentPrices # EmptyItems) =>
              \E data \in CycleBodies :
                  /\ ui'.currentPrices = CurrentPricesOf(BuildRawData(data, now))
                  /\ ui'.rawData = Flatten(Combine(CurrentBucket, BuildRawData(data, now)))]_vars

-----------------------------------------------------------------------------
(* C11: the weekly file name and the week of now *)

\* The weekday of a calendar date, 0 for Sunday.
Weekday(date) == (date + EpochWeekday) % DaysPerWeek

\* The calendar date of instant t on a clock tz hours ahead of UTC.
DateIn(t, tz) == (t + tz) \div HoursPerDay

\* <<S, E>> is the Sunday-to-Saturday week that holds the date.
WeekOf(name, date) ==
    /\ Weekday(name[1]) = 0
    /\ name[2] = name[1] + 6
    /\ name[1] <= date /\ date <= name[2]

\* C11: for every instant and every offset between local time and UTC, the
\* name returned by getWeeklyFileName is the Sunday-to-Saturday week of now's
\* calendar date, read either as the local date or as the UTC date.
C11_NameIsWeekOfNow ==
    call.pc = "returned" =>
        \/ WeekOf(call.out, DateIn(call.at, call.tz))
        \/ WeekOf(call.out, DateIn(call.at, 0))

-----------------------------------------------------------------------------
(* C12: two saves in either order *)

\* The records of s with the timestamp of instant t, in their order in s.
AtTime(s, t) == SelectSeq(s, LAMBDA r : Time(r) = t)

Ascending(s) == \A i \in 1..Len(s) - 1 : Time(s[i]) <= Time(s[i + 1])

\* s is c ordered by timestamp, records of one timestamp in their order in c.
SortedOnce(s, c) ==
    /\ Len(s) = Len(c)
    /\ Ascending(s)
    /\ \A i \in 1..Len(c) : AtTime(s, Time(c[i])) = AtTime(c, Time(c[i]))

\* A record of a and a different record of b carry the same timestamp.
Tied(a, b) ==
    \E i \in 1..Len(a), j \in 1..Len(b) : Time(a[i]) = Time(b[j]) /\ a[i] # b[j]

\* C12 as stated: saving A then B and saving B then A leave the same sequence, the
\* concatenation of the existing records, A and B sorted once by timestamp, ties included.
C12_SaveOrderIrrelevant ==
    call.pc = "saved" =>
        /\ call.AthenB = call.BthenA
        /\ SortedOnce(call.AthenB, ItemOf(call.existing, "cocain") \o call.A \o call.B)

\* C12, amended: each order of the two saves leaves the concatenation in that order
\* sorted once by timestamp, records of one timestamp staying in their order of arrival;
\* the two orders hold the same records, and the same sequence unless a record of A and
\* a different record of B share a timestamp.
C12_SaveOrderUpToTies ==
    call.pc = "saved" =>
        LET old == ItemOf(call.existing, "cocain") IN
        /\ SortedOnce(call.AthenB, old \o call.A \o call.B)
        /\ SortedOnce(call.BthenA, old \o call.B \o call.A)
        /\ \A r \in MergeRecords : Count(call.AthenB, r) = Count(call.BthenA, r)
        /\ ~Tied(call.A, call.B) => call.AthenB = call.BthenA

\* Two saves of records with one timestamp and different prices, which end in
\* different sequences, after an existing record and with an unsorted series.
C12_Witness ==
    /\ call.pc = "saved"
    /\ Len(ItemOf(call.existing, "cocain")) = 1
    /\ Len(call.A) = 2 /\ Time(call.A[1]) > Time(call.A[2])
    /\ Tied(call.A, call.B)
    /\ call.AthenB # call.BthenA

-----------------------------------------------------------------------------
(* C13: a failed initial load *)

\* C13: once the initial load has failed, the page renders the error panel with the
\* failure message and no chart, and no later step, whatever the refreshes bring,
\* changes what is rendered: no action clears the error.
C13_ErrorPanelStays ==
    /\ [](dload.pc = "failed" =>
            Render(ui) = [panel |-> "error", message |-> ui.error] /\ ui.error # "null")
    /\ [][Render(ui).panel = "error" => Render(ui') = Render(ui)]_vars

\* The load has failed and a later refresh has brought records: rawData is set and the
\* error panel is still what is rendered.
C13_Witness ==
    /\ dload.pc = "failed"
    /\ \E c \in 1..MaxTicks : dcyc[c] = "done"
    /\ ui.rawData # <<>>
    /\ Render(ui).panel = "error"

-----------------------------------------------------------------------------
(* C14: the effect's cleanup *)

\* C14: once the cleanup of the effect has run, the refresh timer stays cancelled and
\* no step starts a new refresh cycle: no callback leaves its idle position and the
\* count of started callbacks stays as it is.
C14_NoCycleAfterCleanup ==
    [][~interval =>
          /\ ~interval'
          /\ dticks' = dticks
          /\ \A c \in 1..MaxTicks : dcyc[c] = "idle" => dcyc'[c] = "idle"]_vars

\* The page was torn down after its first refresh had started and before its second:
\* the first callback has run to its end and the second never started.
C14_Witness ==
    /\ ~interval
    /\ dload.pc # "idle"
    /\ dticks = 1
    /\ dcyc[1] = "done"
    /\ dcyc[2] = "idle"

-----------------------------------------------------------------------------
(* C16: flattening *)

\* The positions of flat whose record is stored record r of item.
FlatOfRecord(flat, item, r) ==
    {k \in 1..Len(flat) :
        /\ flat[k].item = item
        /\ flat[k].price = r.price
        /\ flat[k].timestamp = DateParse(r.timestamp)
        /\ flat[k].day = r.timestamp[1]
        /\ flat[k].hour = r.timestamp[2]}

\* C16: flattening a bucket yields exactly one flat record per stored record, with that
\* record's item and price, its UTC hour (0..23) and its UTC date, and the flat
\* sequence is ordered by timestamp ascending.
C16_OneFlatRecordPerRecord ==
    call.pc = "flattened" =>
        /\ \A item \in DOMAIN call.items : \A r \in StoredRecords :
              Cardinality(FlatOfRecord(call.out, item, r)) = Count(call.items[item], r)
        /\ \A k \in 1..Len(call.out) :
              /\ call.out[k].item \in DOMAIN call.items
              /\ call.out[k].hour \in 0..(HoursPerDay - 1)
              /\ \E r \in StoredRecords : k \in FlatOfRecord(call.out, call.out[k].item, r)
        /\ \A k \in 1..Len(call.out) - 1 : call.out[k].timestamp <= call.out[k + 1].timestamp

\* A bucket whose first item holds the later records, one of them twice, and whose
\* records lie on two days: the flat sequence interleaves the items.
C16_Witness ==
    /\ call.pc = "flattened"
    /\ DOMAIN call.items = Items
    /\ Len(call.items["cocain"]) = 2 /\ call.items["cocain"][1] = call.items["cocain"][2]
    /\ Len(call.items["sword"]) = 2
    /\ Len(call.out) = 4
    /\ call.out[1].item = "sword" /\ call.out[2].item = "cocain" /\ call.out[4].item = "sword"
    /\ call.out[1].day # call.out[4].day

-----------------------------------------------------------------------------
(* C20: the standard deviation *)

AllEqual(v) == \A i, j \in 1..Len(v) : v[i] = v[j]

-----------------------------------------------------------------------------
(* C19: the moving average *)

\* The sum of the elements i..j of v, added from left to right.
RECURSIVE SumBetween(_, _, _)
SumBetween(v, i, j) == IF j = i THEN v[i] ELSE Plus(SumBetween(v, i, j - 1), v[j])

\* The mean of the elements i..j of v.
MeanBetween(v, i, j) == DividedBy(SumBetween(v, i, j), FromInt(j - i + 1))

\* C19: for 0 < windowSize <= len(v) the moving average has len(v) - windowSize + 1
\* elements, the k-th being the mean of v[k .. k+windowSize-1]; it is empty when
\* windowSize <= 0 or v is empty.
C19_WindowMeans ==
    call.pc = "returned" =>
        LET v == call.data
            w == call.windowSize
        IN  /\ 0 < w /\ w <= Len(v) =>
                  /\ Len(call.out) = Len(v) - w + 1
                  /\ \A k \in 1..Len(call.out) : call.out[k] = MeanBetween(v, k, k + w - 1)
            /\ w <= 0 \/ v = <<>> => call.out = <<>>

\* Three prices and a window of two: two means, of the first two and of the last two.
C19_Witness ==
    /\ call.pc = "returned"
    /\ Len(call.data) = 3 /\ call.windowSize = 2
    /\ call.data[1] # call.data[3]
    /\ Len(call.out) = 2 /\ call.out[1] # call.out[2]

-----------------------------------------------------------------------------
(* C18: the statistics of each day *)

\* The positions of the records of a day.
PositionsOf(data, day) == {i \in 1..Len(data) : data[i].day = day}

\* The prices of a day, in the order of the records.
RECURSIVE PricesOn(_, _)
PricesOn(data, day) ==
    IF data = <<>> THEN <<>>
    ELSE (IF Head(data).day = day THEN <<Head(data).price>> ELSE <<>>)
            \o PricesOn(Tail(data), day)

\* The population standard deviation of a non-empty v, as floating point computes it.
PopulationDeviation(v) ==
    LET mean == MeanBetween(v, 1, Len(v))
        sq == [i \in 1..Len(v) |-> Times(Minus(v[i], mean), Minus(v[i], mean))]
    IN  MathSqrt(MeanBetween(sq, 1, Len(v)))

\* The counts of the entries, added up.
RECURSIVE TotalCount(_)
TotalCount(out) == IF out = <<>> THEN 0 ELSE Head(out).count + TotalCount(Tail(out))

\* 2^-52, the distance from 1 to the next Number.
Epsilon == [neg |-> FALSE, m |-> <<1>>, e |-> 0 - (MantissaBits - 1)]

\* One entry per distinct day in first-seen order, with the count, the least
\* and the greatest price, the mean and the deviation of the day.
Grouped(data, out) ==
    /\ {out[k].day : k \in 1..Len(out)} = {data[i].day : i \in 1..Len(data)}
    /\ \A j, k \in 1..Len(out) :
          j < k => Min(PositionsOf(data, out[j].day)) < Min(PositionsOf(data, out[k].day))
    /\ \A k \in 1..Len(out) :
          LET prices == PricesOn(data, out[k].day)
          IN  /\ out[k].count = Cardinality(PositionsOf(data, out[k].day))
              /\ \E i \in 1..Len(prices) : out[k].min = prices[i]
              /\ \E i \in 1..Len(prices) : out[k].max = prices[i]
              /\ \A i \in 1..Len(prices) :
                    Leq(out[k].min, prices[i]) /\ Leq(prices[i], out[k].max)
              /\ out[k].avg = MeanBetween(prices, 1, Len(prices))
              /\ out[k].std = PopulationDeviation(prices)
    /\ TotalCount(out) = Len(data)

\* The prices 1, 2 and 3 on one day.
OneTwoThree(data) ==
    /\ Len(data) = 3
    /\ \A i \in 1..3 : data[i].day = data[1].day /\ data[i].price = FromInt(i)

Scenario123(data, out) ==
    OneTwoThree(data) =>
        /\ Len(out) = 1
        /\ out[1].avg = FromInt(2) /\ out[1].min = FromInt(1) /\ out[1].max = FromInt(3)
        /\ out[1].count = 3
        /\ Times(out[1].std, out[1].std) = DividedBy(FromInt(2), FromInt(3))

-----------------------------------------------------------------------------
(* C17: the heatmap of an hour range *)

\* The prices of HeatRecords, in hundredths.
HeatPrices == {100, 101, 200, 400, 500, 1012, 1013}

HundredthsOf(x) == CHOOSE h \in HeatPrices : PriceOf(h) = x

\* The items with a record in the hour range.
ItemsIn(rawData, lo, hi) ==
    {rawData[i].item : i \in {j \in 1..Len(rawData) : rawData[j].hour \in lo..hi}}

CodeUnitIndex(item) == CHOOSE k \in 1..Len(CodeUnitOrder) : CodeUnitOrder[k] = item

\* The prices of the records of an item and an hour, in hundredths, added up.
RECURSIVE SumOfCell(_, _, _)
SumOfCell(rawData, item, hour) ==
    IF rawData = <<>> THEN 0
    ELSE (IF Head(rawData).item = item /\ Head(rawData).hour = hour
          THEN HundredthsOf(Head(rawData).price) ELSE 0)
            + SumOfCell(Tail(rawData), item, hour)

CountOfCell(rawData, item, hour) ==
    Cardinality({i \in 1..Len(rawData) : rawData[i].item = item /\ rawData[i].hour = hour})

\* The whole hundredths nearest to sum / count: one, or two when the mean is
\* halfway between them.
Nearest(sum, count) ==
    {q \in {sum \div count, sum \div count + 1} :
        2 * (count * q - sum) <= count /\ 2 * (sum - count * q) <= count}

\* One row per item with a record in the hour range, in the order of the item
\* names; one column per hour lo..hi; each cell null when no record has the
\* item and the hour, and otherwise the mean of their prices rounded to two
\* decimals.
HeatmapAsSpecified(rawData, lo, hi, out) ==
    LET S == ItemsIn(rawData, lo, hi)
    IN  /\ Len(out.z) = Cardinality(S) /\ Len(out.y) = Cardinality(S)
        /\ out.x = [i \in 1..(hi - lo + 1) |-> lo + i - 1]
        /\ \A item \in S :
              LET r == 1 + Cardinality({j \in S : CodeUnitIndex(j) < CodeUnitIndex(item)})
              IN  /\ out.y[r] \in {item, Capitalised[item]}
                  /\ Len(out.z[r]) = hi - lo + 1
                  /\ \A hour \in lo..hi :
                        LET cell  == out.z[r][hour - lo + 1]
                            count == CountOfCell(rawData, item, hour)
                        IN  IF count = 0 THEN cell = null
                            ELSE \E q \in Nearest(SumOfCell(rawData, item, hour), count) :
                                    cell = PriceOf(q)

\* Two records of one item at one hour, priced 2 and 4, and the whole day.
TwoAndFour(c) ==
    /\ Len(c.rawData) = 2 /\ c.timeRange = <<0, HoursPerDay - 1>>
    /\ c.rawData[1].item = c.rawData[2].item /\ c.rawData[1].hour = c.rawData[2].hour
    /\ {c.rawData[1].price, c.rawData[2].price} = {FromInt(2), FromInt(4)}

\* C17: the heatmap has one row per item with a record in the hour range, in
\* the order of the item names, and one column per hour of the range; each
\* cell is the mean of the prices of its item and hour rounded to two
\* decimals, and null exactly when there is no such record; prices 2 and 4 at
\* one hour give the cell 3 and null in every other column of the row.
C17_HeatmapRoundedMeans ==
    call.pc = "returned" =>
        /\ HeatmapAsSpecified(call.rawData, call.timeRange[1], call.timeRange[2], call.out)
        /\ TwoAndFour(call) =>
              /\ Len(call.out.z) = 1
              /\ \A hour \in 0..(HoursPerDay - 1) :
                    call.out.z[1][hour + 1] =
                        IF hour = call.rawData[1].hour THEN FromInt(3) ELSE null

\* The same of the heatmap of src/unnamed/part_001 alone, which rounds.
HeatmapOfPart001Rounded ==
    call.pc = "returned" /\ call.revision = "part_001" =>
        HeatmapAsSpecified(call.rawData, call.timeRange[1], call.timeRange[2], call.out)

-----------------------------------------------------------------------------
(* C15: the views leave rawData alone *)

\* C15: computing a derived view (the date-range filter, the price evolution,
\* the daily or hourly trend analysis, the heatmap) leaves rawData unchanged
\* in content and order.
C15_ViewsLeaveRawData ==
    call.pc = "computed" => call.heap[RawRef] = call.rawData

\* The price evolution of two items over all dates, whose filtered data is
\* rawData itself.
C15_Witness ==
    /\ call.pc = "computed"
    /\ Len(call.rawData) = Cardinality(ViewRecords)
    /\ call.view = "priceEvolution" /\ call.dateRange = "all" /\ Len(call.out) = 2

-----------------------------------------------------------------------------
(* C21: normalizeData *)

\* C21: every element of normalizeData(v) lies in [0,100], the output is as
\* long as v, and when all elements of v are equal every output element is 50.
C21_NormalizedWithinScale ==
    call.pc = "returned" =>
        /\ Len(call.out) = Len(call.data)
        /\ \A i \in 1..Len(call.out) :
              Leq(Zero, call.out[i]) /\ Leq(call.out[i], FromInt(100))
        /\ AllEqual(call.data) => \A i \in 1..Len(call.out) : call.out[i] = FromInt(50)

\* Three different prices: the least is at 0, the greatest at 100 and the
\* third strictly between them.
C21_Witness ==
    /\ call.pc = "returned"
    /\ Len(call.data) = 3
    /\ \E i, j, k \in 1..3 :
          /\ call.out[i] = Zero /\ call.out[j] = FromInt(100)
          /\ Less(Zero, call.out[k]) /\ Less(call.out[k], FromInt(100))

-----------------------------------------------------------------------------
(* C22: getPriceRange *)

\* The positions of the records of an item.
PositionsOfItem(data, item) == {i \in 1..Len(data) : data[i].item = item}

\* The prices of the records of an item, in their order.
RECURSIVE PricesFor(_, _)
PricesFor(data, item) ==
    IF data = <<>> THEN <<>>
    ELSE (IF Head(data).item = item THEN <<Head(data).price>> ELSE <<>>)
            \o PricesFor(Tail(data), item)

\* {0, 0, 0} without a record of the item, and otherwise the least price, the
\* greatest price and the mean of the prices of exactly its records.
RangeOfItem(data, item, out) ==
    IF PositionsOfItem(data, item) = {}
    THEN out = [min |-> Zero, max |-> Zero, avg |-> Zero]
    ELSE /\ \E i \in PositionsOfItem(data, item) : out.min = data[i].price
         /\ \E i \in PositionsOfItem(data, item) : out.max = data[i].price
         /\ \A i \in PositionsOfItem(data, item) :
               Leq(out.min, data[i].price) /\ Leq(data[i].price, out.max)
         /\ out.avg = MeanBetween(PricesFor(data, item), 1,
                                  Cardinality(PositionsOfItem(data, item)))

-----------------------------------------------------------------------------
(* C30: the series of the trend charts *)

\* The selected items that have a record, in the order of the selection.
WithRecords(c) ==
    SelectSeq(c.selectedItems, LAMBDA item : \E i \in 1..Len(c.rawData) : c.rawData[i].item = item)

RecordsOf(c, item) == Cardinality({i \in 1..Len(c.rawData) : c.rawData[i].item = item})

\* Every trace has as many points on x as on y.
Plotted(trace, n) == Len(trace.x) = n /\ Len(trace.y) = n

\* trendData of page.tsx: for each selected item with n records the upper
\* band, the lower band and the moving average, each of Max({0, n - 4})
\* points, then the n prices; the average is between the bands.
TrendSeries(c) ==
    /\ Len(c.out) = 4 * Len(WithRecords(c))
    /\ \A g \in 1..Len(WithRecords(c)) :
          LET n == RecordsOf(c, WithRecords(c)[g])
              upper == c.out[4 * g - 3]
              lower == c.out[4 * g - 2]
              avg   == c.out[4 * g - 1]
          IN  /\ Plotted(upper, Max({0, n - (TrendWindow - 1)}))
              /\ Plotted(lower, Max({0, n - (TrendWindow - 1)}))
              /\ Plotted(avg, Max({0, n - (TrendWindow - 1)}))
              /\ Plotted(c.out[4 * g], n)
              /\ upper.x = avg.x /\ lower.x = avg.x
              /\ \A k \in 1..Len(avg.y) :
                    Leq(lower.y[k], avg.y[k]) /\ Leq(avg.y[k], upper.y[k])

\* The hourly analysis of part_001: the n prices, then the moving average of
\* Max({0, n - 4}) points.
HourlySeries(c) ==
    /\ Len(c.out) = 2 * Len(WithRecords(c))
    /\ \A g \in 1..Len(WithRecords(c)) :
          LET n == RecordsOf(c, WithRecords(c)[g])
          IN  /\ Plotted(c.out[2 * g - 1], n)
              /\ Plotted(c.out[2 * g], Max({0, n - (TrendWindow - 1)}))

\* C30: with window 5 and an item of n records, the moving average, the upper
\* and lower bands and their time axis all have Max({0, n - 4}) points, and at
\* every position lowerBand <= movingAverage <= upperBand.
C30_BandsAligned ==
    call.pc = "computed" =>
        /\ call.view = "trendData" => TrendSeries(call)
        /\ call.view = "historicalAnalysis" /\ call.trendAnalysisType = "hourly" =>
              HourlySeries(call)

\* An item of six records: two positions, the average strictly inside the bands.
C30_Witness ==
    /\ call.pc = "computed" /\ call.view = "trendData"
    /\ call.selectedItems = <<"cocain">>
    /\ RecordsOf(call, "cocain") = TrendWindow + 1
    /\ Len(call.out[3].y) = 2
    /\ \A k \in 1..2 :
          Less(call.out[2].y[k], call.out[3].y[k]) /\ Less(call.out[3].y[k], call.out[1].y[k])

-----------------------------------------------------------------------------
(* C24: the day option 'all' of page.tsx *)

\* The records of an item on every day, in the order of rawData.
AllOf(rawData, item) == SelectSeq(rawData, LAMBDA d : d.item = item)

\* The selected items, the second one only when chosen.
SelectedOf(page) ==
    <<page.selectedItem>> \o (IF page.selectedItem2 # "" THEN <<page.selectedItem2>> ELSE <<>>)

\* C24: with the day option 'all' chosen, the price evolution chart of
\* page.tsx has the records of every day of each selected item.
C24_AllDaysShown ==
    call.selectedDay = AllDays =>
        \A k \in 1..Len(SelectedOf(call)) :
            LET item == SelectedOf(call)[k]
            IN  AllOf(call.rawData, item) # <<>> =>
                    \E t \in 1..Len(call.chart) :
                        /\ call.chart[t].name = item
                        /\ call.chart[t].x = timestamps(AllOf(call.rawData, item))
                        /\ call.chart[t].y = pricesOf(AllOf(call.rawData, item))

\* What the code does with 'all': no record has that day, the chart is empty.
AllDaysShowsNothing == call.selectedDay = AllDays => call.chart = <<>>

-----------------------------------------------------------------------------
(* C25: the timer of startPriceUpdates *)

\* C25: the hourly timer is installed only after the initial fetch and the
\* initial save have both succeeded; if either fails, startPriceUpdates
\* rejects, no timer is installed and no refresh ever runs.
C25_TimerOnlyAfterInitialSave ==
    /\ timer => cyc[0].pc = "done" /\ cyc[0].fetched /\ cyc[0].saveCalled /\ ~thrown
    /\ Failed(cyc[0]) =>
          /\ thrown /\ ~timer /\ ticks = 0
          /\ \A c \in 1..MaxTicks : cyc[c] = IdleCycle
    /\ ticks > 0 => timer

\* The initial save failed at its write and the next hour has come: no timer.
C25_Witness ==
    /\ cyc[0].pc = "writeError" /\ cyc[0].fetched
    /\ thrown /\ ~timer
    /\ now > FirstNow

-----------------------------------------------------------------------------
(* C26: what a save leaves alone *)

\* The cycle whose writeFile resolves in this step.
Writes(c) == cyc[c].pc = "writing" /\ cyc'[c].pc = "done"

\* C26: a save leaves unchanged the stored sequence of every item that does not
\* occur in its newData, and the persisted bucket of every other week.
C26_SaveLeavesOtherItems ==
    [][\A c \in Cycles : Writes(c) =>
          /\ \A k \in DOMAIN files \ {cyc[c].key} :
                k \in DOMAIN files' /\ files'[k] = files[k]
          /\ \A item \in DOMAIN ItemOf(files, cyc[c].key) \ DOMAIN cyc[c].newData :
                /\ item \in DOMAIN files'[cyc[c].key]
                /\ files'[cyc[c].key][item] = files[cyc[c].key][item]]_vars

\* What holds of a save: the other weeks stay, and every item that is not in
\* newData has the sequence the save read, whatever was written since.
SaveKeepsWhatItRead ==
    [][\A c \in Cycles : Writes(c) =>
          /\ \A k \in DOMAIN files \ {cyc[c].key} :
                k \in DOMAIN files' /\ files'[k] = files[k]
          /\ \A item \in DOMAIN cyc[c].existing \ DOMAIN cyc[c].newData :
                files'[cyc[c].key][item] = cyc[c].existing[item]]_vars

-----------------------------------------------------------------------------
(* C27: a bucket that cannot be read *)

\* C27: when the file of the week exists but its read or its parse fails,
\* saveWeeklyPrices throws without writing: the step leaves every persisted
\* bucket as it was, and the call never writes afterwards.
C27_ReadFailureWritesNothing ==
    [][\A c \in Cycles :
          /\ ReadFail(c) =>
                /\ files' = files
                /\ Failed(cyc'[c]) /\ cyc'[c].writes = 0
                /\ c = 0 => thrown'
          /\ cyc[c].pc = "loadError" => cyc'[c] = cyc[c]]_vars

\* A refresh whose read of the existing file failed, the file still there
\* without the fetched record.
C27_Witness ==
    \E c \in 1..MaxTicks :
        /\ cyc[c].pc = "loadError" /\ cyc[c].fetched /\ cyc[c].writes = 0
        /\ cyc[c].key \in DOMAIN files
        /\ \E item \in DOMAIN cyc[c].newData :
              Count(ItemOf(files[cyc[c].key], item), cyc[c].newData[item][1]) = 0

-----------------------------------------------------------------------------
(* C28: failed periodic refresh *)

\* The step in which the refresh of tick c fails: the fetch rejects or
\* answers outside 2xx, or the body is not JSON.
RefreshFails(c) ==
    /\ dcyc[c] \in {"fetching", "parsing"}
    /\ dcyc'[c] = "fetchError"

\* C28: a periodic dashboard refresh whose fetch fails leaves rawData,
\* currentPrices, error and loading exactly as they were, and the timer
\* stays armed, so that later ticks still run.
C28_FailedRefreshChangesNothing ==
    [][\A c \in 1..MaxTicks :
          RefreshFails(c) =>
              /\ ui'.rawData = ui.rawData
              /\ ui'.currentPrices = ui.currentPrices
              /\ ui'.error = ui.error
              /\ ui'.loading = ui.loading
              /\ interval' = interval
              /\ DashTickGuard' = DashTickGuard]_vars

\* The first refresh has failed over loaded data and the second tick ran.
C28_Witness ==
    /\ dcyc[1] = "fetchError"
    /\ dcyc[2] # "idle"
    /\ ui.rawData # <<>>
    /\ ~ui.loading
    /\ ui.error = "null"

-----------------------------------------------------------------------------
(* C29: fallback of the initial load *)

\* C29: when loadWeeklyPrices has failed and the fetch of the fallback
\* answers with at least one valid record, the initial load ends with error
\* unset, loading false and rawData the flattening of the fetched series.
C29_LoadFallsBackToFetch ==
    [][\A data \in CycleBodies :
          (LoadJsonOk2(data) /\ DOMAIN data # {}) =>
              /\ dload'.pc = "done"
              /\ ui'.error = "null"
              /\ ~ui'.loading
              /\ ui'.rawData # <<>>
              /\ ui'.rawData = Flatten(BuildRawData(data, now))]_vars

\* The load ended well although the directory could not be made, so that
\* loadWeeklyPrices threw, and no refresh has replaced what it loaded.
C29_Witness ==
    /\ dload.pc = "done"
    /\ ~dirExists
    /\ dticks = 0
    /\ ui.rawData # <<>>
    /\ ui.error = "null"
    /\ ~ui.loading

-----------------------------------------------------------------------------
(* C23: the selected day and the loaded days *)

\* C23: whenever rawData is loaded and the date mode is 'single', selectedDay
\* is one of the days occurring in rawData.
C23_SelectedDayInData ==
    (ui.rawData # <<>> /\ ui.dateRange = "single") =>
        ui.selectedDay \in availableDays(ui)

\* The initial load leaves the selected day among the loaded days.
LoadSelectsLoadedDay ==
    [][(dload.pc # "done" /\ dload'.pc = "done") =>
          ui'.selectedDay \in availableDays(ui')]_vars

\* The dashboard is shown after a load from the weekly file, a refresh has
\* replaced rawData by the records of its fetch, and the selected day is the
\* file's first day, which the refreshed data no longer has.
StaleSelectedDay ==
    /\ dload.pc = "done"
    /\ ControlsShown
    /\ \E c \in 1..MaxTicks : dcyc[c] = "done"
    /\ ui.dateRange = "single"
    /\ ui.rawData # <<>>
    /\ ui.selectedDay # NoDay
    /\ ui.selectedDay \notin availableDays(ui)

=============================================================================
